---- MODULE Spec2Model ----
(***************************************************************************)
(* Availability tactics of the retail management system:                   *)
(*   - BaseCircuitBreaker (src/src/tactics/base.py, lines 57-104)          *)
(*   - BaseRetry          (src/src/tactics/base.py, lines 268-299)         *)
(*   - BaseQueue          (src/src/tactics/base.py, lines 106-146)         *)
(* and, from the specification, the status of queued work, the manager's   *)
(* submit and the concurrency limiter.                                     *)
(* Time is counted in whole clock units; a retry delay is counted in       *)
(* units of 0.1 s.                                                         *)
(***************************************************************************)
EXTENDS Integers, Sequences, FiniteSets, TLC

\* ------------------------------------------------------------------------
\* Bounds of the model
\* ------------------------------------------------------------------------
MaxThreshold == 2      \* largest failure_threshold drawn
MaxTimeout == 2        \* largest timeout_duration drawn
MaxTime == 3           \* the clock stops advancing here
MaxFailures == 3       \* cap on failure_count
MaxDrift == 1          \* clock units that may pass inside one call
MaxAttempts == 3       \* largest max_attempts drawn
MaxDelay == 2          \* largest delay drawn (units of 0.1 s)
MaxFactor == 2         \* largest backoff_factor drawn
MaxJitter == 1         \* time.sleep may overshoot by this much
MaxSize == 3           \* largest max_size drawn
MaxArrivals == 4       \* items admitted to the queue in one behaviour
MaxPriority == 3       \* priorities are 1..MaxPriority
NumCallers == 3        \* threads calling the concurrency limiter
MaxConcurrent == 2     \* largest max_concurrent drawn
MaxLockTimeout == 1    \* largest lock_timeout drawn
MaxHold == 2           \* longest time an op holds its slot
MaxSubmits == 4        \* requests submitted to the manager
MaxSubmitThreshold == 3 \* largest failure_threshold of the manager's breaker
MaxQueued == 4         \* largest max_size of the manager's queue
MaxDrained == 2        \* requests submitted while the drain loop runs
MaxStarts == 2         \* operations started, one monitor thread each
MaxOpTime == 1         \* largest max_operation_time drawn
MaxSubmitPriority == 2 \* submit priorities are 1..MaxSubmitPriority
MaxPoolFailures == 2   \* cap on failure_count of a manager's breaker
MaxPoolTime == 1       \* the clock of the managers' breakers stops here
NumRacers == 2         \* threads calling one breaker at the same time
MaxRaceThreshold == 2  \* largest failure_threshold of that breaker
MaxRaceTime == 1       \* the clock stops here while they run
NumProducers == 2      \* threads calling enqueue at the same time
MaxRaceSize == 1       \* largest max_size of the queue they share
MaxRacePriority == 2   \* their priorities are 1..MaxRacePriority
MaxRaceDequeues == 2   \* dequeue calls of the consumer thread

\* `None` of last_failure_time / next_attempt_time (base.py:67-68)
NoTime == -1

Results == {"r1", "r2"}          \* values an operation may return
Errors == {"e1", "e2"}           \* exceptions an operation may raise
OpOutcomes == [ok : {TRUE}, val : Results] \cup [ok : {FALSE}, val : Errors]

VARIABLES
    cb,      \* the circuit breaker object (config and fields)
    now,     \* datetime.now(timezone.utc)
    last,    \* the most recent call on the breaker, as observed by its caller
    prev,    \* the call before it
    obs,     \* observer bookkeeping over the calls made so far
    rp,      \* the retry object's configuration
    rc,      \* the running execute_with_retry call (its locals)
    rh,      \* what the op and the sleeps of that call did
    q,       \* the queue object (max_size and items)
    reg,     \* status and error message of every admitted item, by id
    deq,     \* the entries returned by dequeue so far, in order
    qlast,   \* the most recent call on the queue, as observed by its caller
    lim,     \* the concurrency limiter (config, active count, last wait)
    th,      \* the threads calling the limiter
    mg,      \* the manager's request in progress and what it returned
    pi,      \* the progress indicator (config and active_operations)
    pnow,    \* the clock read by the progress indicator
    mon,     \* the monitor threads, in the order they were started
    plast,   \* the most recent call on the progress indicator
    pdone,   \* the most recent completion of an operation
    pool,    \* the breakers of the managers, by owner and service name
    bt,      \* threads calling one breaker at the same time
    qt,      \* threads calling one queue at the same time
    pub,     \* the publisher object (its list of subscribers)
    sent     \* the most recent call on the publisher

vars == <<cb, now, last, prev, obs, rp, rc, rh, q, reg, deq, qlast, lim, th,
          mg, pi, pnow, mon, plast, pdone, pool, bt, qt, pub, sent>>
breakerVars == <<cb, now, last, prev, obs>>
retryVars == <<rp, rc, rh>>
queueVars == <<q, reg, deq, qlast>>
limiterVars == <<lim, th>>
progressVars == <<pi, pnow, mon, plast, pdone>>
raceVars == <<bt, qt>>
publisherVars == <<pub, sent>>
\* the components that the sequential availability tactics do not use
asideVars == <<progressVars, pool, raceVars, publisherVars>>
notBreaker == <<retryVars, queueVars, limiterVars, mg, asideVars>>
notRetry == <<breakerVars, queueVars, limiterVars, mg, asideVars>>
notQueue == <<breakerVars, retryVars, limiterVars, mg, asideVars>>
notLimiter == <<breakerVars, retryVars, queueVars, mg, asideVars>>
notProgress == <<breakerVars, retryVars, queueVars, limiterVars, mg, pool,
                 raceVars, publisherVars>>
notPublisher == <<breakerVars, retryVars, queueVars, limiterVars, mg,
                  progressVars, pool, raceVars>>
notBreakerRace == <<last, prev, obs, retryVars, queueVars, limiterVars, mg,
                    progressVars, pool, qt, publisherVars>>
notQueueRace == <<breakerVars, retryVars, reg, deq, qlast, limiterVars, mg,
                  progressVars, pool, bt, publisherVars>>
notPool == <<breakerVars, retryVars, queueVars, limiterVars, mg,
             progressVars, raceVars, publisherVars>>

\* ------------------------------------------------------------------------
\* BaseCircuitBreaker
\* ------------------------------------------------------------------------

\* __init__: state CLOSED, failure_count 0, both times None
NewBreaker(threshold, timeout) ==
    [failure_threshold |-> threshold,
     timeout_duration |-> timeout,
     state |-> "closed",
     failure_count |-> 0,
     last_failure_time |-> NoTime,
     next_attempt_time |-> NoTime]

\* validate_config
validate_config(b) ==
    b.failure_threshold > 0 /\ b.timeout_duration > 0

\* `self.next_attempt_time and now >= self.next_attempt_time`
Elapsed(b, t) ==
    b.next_attempt_time # NoTime /\ t >= b.next_attempt_time

\* can_execute: the value returned when called at time t
CanExecuteResult(b, t) ==
    IF b.state = "closed" THEN TRUE
    ELSE IF b.state = "open" THEN Elapsed(b, t)
    ELSE IF b.state = "half_open" THEN TRUE
    ELSE FALSE

\* can_execute: the breaker after the call made at time t
CanExecuteEffectAlwaysProbe(b, t) ==
    IF b.state = "open" THEN [b EXCEPT !.state = "half_open"] ELSE b

CanExecuteEffectResetCount(b, t) ==
    IF b.state = "open" /\ Elapsed(b, t)
    THEN [b EXCEPT !.state = "half_open", !.failure_count = 0]
    ELSE b

CanExecuteEffect(b, t) ==
    IF b.state = "open" /\ Elapsed(b, t)
    THEN [b EXCEPT !.state = "half_open"]
    ELSE b

\* record_success
RecordSuccessDecrement(b) ==
    [b EXCEPT !.failure_count = IF @ > 0 THEN @ - 1 ELSE 0,
              !.state = "closed"]

RecordSuccessKeepCount(b) == [b EXCEPT !.state = "closed"]

RecordSuccessCountOnly(b) == [b EXCEPT !.failure_count = 0]

RecordSuccess(b) ==
    [b EXCEPT !.failure_count = 0, !.state = "closed"]

\* record_failure: t1 and t2 are its two readings of the clock
RecordFailureTwice(b, t1, t2) ==
    LET c == b.failure_count + 2 IN
    IF c >= b.failure_threshold
    THEN [b EXCEPT !.failure_count = c,
                   !.last_failure_time = t1,
                   !.state = "open",
                   !.next_attempt_time = t2 + b.timeout_duration]
    ELSE [b EXCEPT !.failure_count = c, !.last_failure_time = t1]

RecordFailureStrict(b, t1, t2) ==
    LET c == b.failure_count + 1 IN
    IF c > b.failure_threshold
    THEN [b EXCEPT !.failure_count = c,
                   !.last_failure_time = t1,
                   !.state = "open",
                   !.next_attempt_time = t2 + b.timeout_duration]
    ELSE [b EXCEPT !.failure_count = c, !.last_failure_time = t1]

RecordFailure(b, t1, t2) ==
    LET c == b.failure_count + 1 IN
    IF c >= b.failure_threshold
    THEN [b EXCEPT !.failure_count = c,
                   !.last_failure_time = t1,
                   !.state = "open",
                   !.next_attempt_time = t2 + b.timeout_duration]
    ELSE [b EXCEPT !.failure_count = c, !.last_failure_time = t1]

\* ------------------------------------------------------------------------
\* What a caller observes of one call on the breaker
\* ------------------------------------------------------------------------
\* op      : the method called        ret : what it returned or raised
\* invoked : how often func was run    out : what func returned or raised
\* at, t   : the clock when the call started and when it returned
\* pre     : the breaker before the call
NoCall ==
    [op |-> "none", ret |-> "none", invoked |-> 0, out |-> "none",
     at |-> 0, t |-> 0, pre |-> NewBreaker(0, 0)]

Call(op, ret, invoked, out, at, t, pre) ==
    [op |-> op, ret |-> ret, invoked |-> invoked, out |-> out,
     at |-> at, t |-> t, pre |-> pre]

\* what is remembered of the call before the last one
\* (from: the breaker's state before that call; streak: obs.streak after it)
NoSummary == [op |-> "none", t |-> 0, from |-> "closed", streak |-> 0]

Summary(c, o) ==
    [op |-> c.op, t |-> c.t, from |-> c.pre.state, streak |-> o.streak]

BoolStr(x) == IF x THEN "true" ELSE "false"

\* obs.streak     : record_failure calls since the breaker was last Closed
\*                  with failure_count 0
\* obs.tripped_at : the clock reading used when the state last changed
\*                  from Closed or HalfOpen to Open
\* obs.succeeded  : some record_success has happened
\* obs.since      : record_failure calls since the last record_success
ObsAfterSuccess(o) ==
    [o EXCEPT !.streak = 0, !.succeeded = TRUE, !.since = 0]

ObsAfterFailure(o, b, b2, t2) ==
    [o EXCEPT !.streak = @ + 1,
              !.since = @ + 1,
              !.tripped_at = IF b.state # "open" /\ b2.state = "open"
                             THEN t2 ELSE @]

\* ------------------------------------------------------------------------
\* Actions of the breaker
\* ------------------------------------------------------------------------
InitBreaker ==
    /\ \E k \in 0..MaxThreshold, d \in 0..MaxTimeout : cb = NewBreaker(k, d)
    /\ now = 0
    /\ last = NoCall
    /\ prev = NoSummary
    /\ obs = [streak |-> 0, tripped_at |-> NoTime, succeeded |-> FALSE,
              since |-> 0]

\* time passes between calls; nothing runs in the breaker meanwhile
TickWithTimer ==
    /\ now < MaxTime
    /\ now' = now + 1
    /\ cb' = CanExecuteEffect(cb, now + 1)
    /\ UNCHANGED <<last, prev, obs>>
    /\ UNCHANGED notBreaker

Tick ==
    /\ now < MaxTime
    /\ now' = now + 1
    /\ UNCHANGED <<cb, last, prev, obs>>
    /\ UNCHANGED notBreaker

can_execute ==
    /\ cb' = CanExecuteEffect(cb, now)
    /\ prev' = Summary(last, obs)
    /\ last' = Call("can_execute", BoolStr(CanExecuteResult(cb, now)),
                    0, "none", now, now, cb)
    /\ UNCHANGED <<now, obs>>
    /\ UNCHANGED notBreaker

record_success ==
    /\ cb' = RecordSuccess(cb)
    /\ obs' = ObsAfterSuccess(obs)
    /\ prev' = Summary(last, obs)
    /\ last' = Call("record_success", "none", 0, "none", now, now, cb)
    /\ UNCHANGED now
    /\ UNCHANGED notBreaker

record_failure ==
    /\ cb.failure_count < MaxFailures
    /\ \E d \in 0..MaxDrift :
         /\ now + d <= MaxTime
         /\ now' = now + d
         /\ cb' = RecordFailure(cb, now, now + d)
         /\ obs' = ObsAfterFailure(obs, cb, cb', now + d)
         /\ prev' = Summary(last, obs)
         /\ last' = Call("record_failure", "none", 0, "none", now, now + d,
                         cb)
    /\ UNCHANGED notBreaker

\* execute(func): refuse when can_execute() is false; otherwise run func,
\* record the outcome on the breaker and hand it to the caller
ExecuteRefused ==
    /\ ~CanExecuteResult(cb, now)
    /\ cb' = CanExecuteEffect(cb, now)
    /\ prev' = Summary(last, obs)
    /\ last' = Call("execute", "CircuitOpenError", 0, "none", now, now, cb)
    /\ UNCHANGED <<now, obs>>
    /\ UNCHANGED notBreaker

ExecuteSuccess ==
    /\ CanExecuteResult(cb, now)
    /\ \E v \in Results, d \in 0..MaxDrift :
         /\ now + d <= MaxTime
         /\ now' = now + d
         /\ cb' = RecordSuccess(CanExecuteEffect(cb, now))
         /\ obs' = ObsAfterSuccess(obs)
         /\ prev' = Summary(last, obs)
         /\ last' = Call("execute", v, 1, v, now, now + d, cb)
    /\ UNCHANGED notBreaker

ExecuteFailure ==
    /\ CanExecuteResult(cb, now)
    /\ cb.failure_count < MaxFailures
    /\ \E e \in Errors, d \in 0..MaxDrift :
         /\ now + d <= MaxTime
         /\ now' = now + d
         /\ cb' = RecordFailure(CanExecuteEffect(cb, now), now + d, now + d)
         /\ obs' = ObsAfterFailure(obs, CanExecuteEffect(cb, now), cb',
                                   now + d)
         /\ prev' = Summary(last, obs)
         /\ last' = Call("execute", e, 1, e, now, now + d, cb)
    /\ UNCHANGED notBreaker

execute == ExecuteRefused \/ ExecuteSuccess \/ ExecuteFailure

NextBreaker ==
    \/ Tick
    \/ can_execute
    \/ record_success
    \/ record_failure
    \/ execute

\* ------------------------------------------------------------------------
\* BaseRetry
\* ------------------------------------------------------------------------
RECURSIVE Pow(_, _)
Pow(b, e) == IF e = 0 THEN 1 ELSE b * Pow(b, e - 1)

RECURSIVE Sum(_)
Sum(s) == IF s = <<>> THEN 0 ELSE Head(s) + Sum(Tail(s))

\* __init__: the three settings read from config
NewRetry(n, d, f) ==
    [max_attempts |-> n, delay |-> d, backoff_factor |-> f]

\* `for attempt in range(self.max_attempts)`: the loop body runs again
InRangeInclusive(attempt, p) == attempt <= p.max_attempts

InRange(attempt, p) == attempt < p.max_attempts

\* `if attempt < self.max_attempts - 1`: a sleep follows the failure
SleepsAfter(attempt, p) == attempt < p.max_attempts - 1

\* wait_time = self.delay * (self.backoff_factor ** attempt)
WaitTimeLinear(attempt, p) == p.delay * p.backoff_factor * attempt

WaitTime(attempt, p) == p.delay * Pow(p.backoff_factor, attempt)

\* `return func(*args, **kwargs)`: the locals after func returned v
OnSuccessContinue(c, v) ==
    [c EXCEPT !.pc = "loop", !.attempt = @ + 1]

OnSuccess(c, v) ==
    [c EXCEPT !.pc = "returned", !.result = v]

\* `except Exception as e`: the locals after func raised e
OnFailureKeepFirst(c, e, p) ==
    [c EXCEPT !.last_exception = IF @ = "None" THEN e ELSE @,
              !.pc = IF SleepsAfter(c.attempt, p) THEN "sleep" ELSE "loop",
              !.attempt = IF SleepsAfter(c.attempt, p) THEN @ ELSE @ + 1]

OnFailure(c, e, p) ==
    [c EXCEPT !.last_exception = e,
              !.pc = IF SleepsAfter(c.attempt, p) THEN "sleep" ELSE "loop",
              !.attempt = IF SleepsAfter(c.attempt, p) THEN @ ELSE @ + 1]

IdleCall ==
    [pc |-> "idle", attempt |-> 0, last_exception |-> "None",
     result |-> "None"]

\* rh.outcomes : what func did on each invocation, in order
\* rh.sleeps   : the argument of each time.sleep, in order
\* rh.elapsed  : wall time spent in the call (units of 0.1 s)
NoHistory == [outcomes |-> <<>>, sleeps |-> <<>>, elapsed |-> 0]

InitRetry ==
    /\ \E n \in 0..MaxAttempts, d \in 1..MaxDelay, f \in 1..MaxFactor :
         rp = NewRetry(n, d, f)
    /\ rc = IdleCall
    /\ rh = NoHistory

\* execute_with_retry is entered: last_exception = None
RetryCall ==
    /\ rc.pc \in {"idle", "returned", "raised"}
    /\ rc' = [IdleCall EXCEPT !.pc = "loop"]
    /\ rh' = NoHistory
    /\ UNCHANGED <<rp, notRetry>>

\* one pass of the loop body: func is invoked and returns or raises
RetryAttempt ==
    /\ rc.pc = "loop"
    /\ InRange(rc.attempt, rp)
    /\ \E o \in OpOutcomes :
         /\ rc' = IF o.ok THEN OnSuccess(rc, o.val)
                  ELSE OnFailure(rc, o.val, rp)
         /\ rh' = [rh EXCEPT !.outcomes = Append(@, o)]
    /\ UNCHANGED <<rp, notRetry>>

\* time.sleep(wait_time), then the next pass
RetrySleep ==
    /\ rc.pc = "sleep"
    /\ \E j \in 0..MaxJitter :
         rh' = [rh EXCEPT !.sleeps = Append(@, WaitTime(rc.attempt, rp)),
                          !.elapsed = @ + WaitTime(rc.attempt, rp) + j]
    /\ rc' = [rc EXCEPT !.pc = "loop", !.attempt = @ + 1]
    /\ UNCHANGED <<rp, notRetry>>

\* the loop is exhausted: `raise last_exception` (a TypeError when it is None)
RetryRaise ==
    /\ rc.pc = "loop"
    /\ ~InRange(rc.attempt, rp)
    /\ rc' = [rc EXCEPT !.pc = "raised",
                        !.result = IF rc.last_exception = "None"
                                   THEN "TypeError" ELSE rc.last_exception]
    /\ UNCHANGED <<rp, rh, notRetry>>

NextRetry ==
    \/ RetryCall
    \/ RetryAttempt
    \/ RetrySleep
    \/ RetryRaise

\* ------------------------------------------------------------------------
\* BaseQueue
\* ------------------------------------------------------------------------
\* `None` returned by dequeue on an empty queue (base.py:133)
NoItem == 0

Priorities == 1..MaxPriority
Reasons == {"why1", "why2"}      \* reasons given to MarkFailed

\* __init__: max_size as given, no items
NewQueue(m) == [max_size |-> m, items |-> <<>>]

\* the dict appended by enqueue; the item is named by its id, and its
\* timestamp is its arrival number
Entry(it, pri) == [item |-> it, priority |-> pri, timestamp |-> it]

\* `self.items.sort(key=lambda x: x['priority'], reverse=True)`:
\* list.sort is stable, also with reverse=True, so x goes behind every entry
\* whose priority is at least its own
RECURSIVE InsertBeforeTies(_, _)
InsertBeforeTies(x, s) ==
    IF s = <<>> THEN <<x>>
    ELSE IF Head(s).priority > x.priority
         THEN <<Head(s)>> \o InsertBeforeTies(x, Tail(s))
         ELSE <<x>> \o s

RECURSIVE Insert(_, _)
Insert(x, s) ==
    IF s = <<>> THEN <<x>>
    ELSE IF Head(s).priority >= x.priority
         THEN <<Head(s)>> \o Insert(x, Tail(s))
         ELSE <<x>> \o s

RECURSIVE SortDesc(_)
SortDesc(s) ==
    IF s = <<>> THEN <<>>
    ELSE Insert(s[Len(s)], SortDesc(SubSeq(s, 1, Len(s) - 1)))

\* `if len(self.items) >= self.max_size`
IsFullOffByOne(qu) == Len(qu.items) > qu.max_size

IsFull(qu) == Len(qu.items) >= qu.max_size

\* enqueue: the value returned, and the queue afterwards
EnqueueResult(qu) == ~IsFull(qu)

EnqueueEffectEvict(qu, it, pri) ==
    IF IsFull(qu)
    THEN [qu EXCEPT !.items =
            SortDesc(Append(IF @ = <<>> THEN @ ELSE Tail(@),
                            Entry(it, pri)))]
    ELSE [qu EXCEPT !.items = SortDesc(Append(@, Entry(it, pri)))]

EnqueueEffect(qu, it, pri) ==
    IF IsFull(qu) THEN qu
    ELSE [qu EXCEPT !.items = SortDesc(Append(@, Entry(it, pri)))]

\* dequeue: the value returned, and the queue afterwards
DequeueResult(qu) ==
    IF qu.items = <<>> THEN NoItem ELSE Head(qu.items).item

DequeueEffectPeek(qu) == qu

DequeueEffectDropAll(qu) == [qu EXCEPT !.items = <<>>]

DequeueEffect(qu) ==
    IF qu.items = <<>> THEN qu ELSE [qu EXCEPT !.items = Tail(@)]

\* size, is_empty
SizeOfCapacity(qu) == qu.max_size

size(qu) == Len(qu.items)

is_empty(qu) == Len(qu.items) = 0

\* ------------------------------------------------------------------------
\* Status of admitted items: pending, then completed or failed
\* ------------------------------------------------------------------------
NewItemStatus == [status |-> "pending", error_message |-> "None"]

Known(r, id) == id \in 1..Len(r)

Terminal(r, id) == Known(r, id) /\ r[id].status # "pending"

\* MarkCompleted / MarkFailed are refused for an unknown or a terminal id
MarkRefusedUnknownOnly(r, id) == ~Known(r, id)

MarkRefused(r, id) == ~Known(r, id) \/ Terminal(r, id)

MarkCompletedEffect(r, id) ==
    IF MarkRefused(r, id) THEN r
    ELSE [r EXCEPT ![id] = [status |-> "completed",
                            error_message |-> "None"]]

MarkFailedEffectOverwrite(r, id, why) ==
    IF ~Known(r, id) THEN r
    ELSE [r EXCEPT ![id] = [status |-> "failed", error_message |-> why]]

MarkFailedEffect(r, id, why) ==
    IF MarkRefused(r, id) THEN r
    ELSE [r EXCEPT ![id] = [status |-> "failed", error_message |-> why]]

\* ------------------------------------------------------------------------
\* Actions of the queue
\* ------------------------------------------------------------------------
\* op  : the method called        arg  : its priority or id
\* ret : how the call ended       item : the item dequeue returned
NoQueueCall == [op |-> "none", arg |-> 0, ret |-> "none", item |-> NoItem]

QueueCall(op, arg, ret, item) ==
    [op |-> op, arg |-> arg, ret |-> ret, item |-> item]

InitQueue ==
    /\ \E m \in 0..MaxSize : q = NewQueue(m)
    /\ reg = <<>>
    /\ deq = <<>>
    /\ qlast = NoQueueCall

\* Enqueue(payload, priority): the id is assigned on admission
EnqueueWith(pri) ==
    /\ Len(reg) < MaxArrivals \/ IsFull(q)
    /\ q' = EnqueueEffect(q, Len(reg) + 1, pri)
    /\ reg' = IF EnqueueResult(q) THEN Append(reg, NewItemStatus) ELSE reg
    /\ qlast' = QueueCall("enqueue", pri,
                          IF EnqueueResult(q) THEN "true"
                          ELSE "QueueFullError", NoItem)
    /\ UNCHANGED deq
    /\ UNCHANGED notQueue

enqueue == \E pri \in Priorities : EnqueueWith(pri)

\* enqueue(item) with the default `priority: int = 0`
DefaultPriority == 0

EnqueueDefault == EnqueueWith(DefaultPriority)

dequeue ==
    /\ q' = DequeueEffect(q)
    /\ deq' = IF DequeueResult(q) = NoItem THEN deq
              ELSE Append(deq, Head(q.items))
    /\ qlast' = QueueCall("dequeue", 0,
                          IF DequeueResult(q) = NoItem THEN "None"
                          ELSE "item", DequeueResult(q))
    /\ UNCHANGED reg
    /\ UNCHANGED notQueue

MarkCompleted ==
    /\ \E id \in 1..(Len(reg) + 1) :
         /\ reg' = MarkCompletedEffect(reg, id)
         /\ qlast' = QueueCall("mark_completed", id,
                               IF MarkRefused(reg, id)
                               THEN "InvalidStateError" ELSE "true",
                               NoItem)
    /\ UNCHANGED <<q, deq>>
    /\ UNCHANGED notQueue

MarkFailed ==
    /\ \E id \in 1..(Len(reg) + 1), why \in Reasons :
         /\ reg' = MarkFailedEffect(reg, id, why)
         /\ qlast' = QueueCall("mark_failed", id,
                               IF MarkRefused(reg, id)
                               THEN "InvalidStateError" ELSE "true",
                               NoItem)
    /\ UNCHANGED <<q, deq>>
    /\ UNCHANGED notQueue

NextQueue ==
    \/ enqueue
    \/ dequeue

NextStatus ==
    \/ EnqueueDefault
    \/ dequeue
    \/ MarkCompleted
    \/ MarkFailed

\* ------------------------------------------------------------------------
\* Concurrency limiter: ExecuteWithLimit(op)
\* ------------------------------------------------------------------------
Callers == 1..NumCallers

\* max_concurrent slots, lock_timeout, the slots in use, and the wait time
\* observed by the caller that last obtained a slot
NewLimiter(m, t) ==
    [max_concurrent |-> m, lock_timeout |-> t, active_count |-> 0,
     lock_wait |-> 0, ticked |-> FALSE]

\* pc     : idle, waiting, running, done (op ran) or failed (no slot)
\* waited : time spent waiting for a slot   held : time the op has run
\* result : what the call returned          early : called before any time
\*                                                   had passed
IdleThread ==
    [pc |-> "idle", waited |-> 0, held |-> 0, result |-> "none",
     early |-> FALSE]

\* a slot is free
SlotFreeInclusive(l) == l.active_count <= l.max_concurrent

SlotFree(l) == l.active_count < l.max_concurrent

\* the slot is taken / given back
Acquired(l, waited) ==
    [l EXCEPT !.active_count = @ + 1, !.lock_wait = waited]

Released(l) == [l EXCEPT !.active_count = @ - 1]

LeakedOnError(l) == l

\* the slot is given back on every exit of op
ReleasedOnError(l) == Released(l)

\* the wait is over without a slot
TimedOutEarly(l, waited) == TRUE

TimedOut(l, waited) == waited >= l.lock_timeout

InitLimiter ==
    /\ \E m \in 1..MaxConcurrent, t \in 0..MaxLockTimeout :
         lim = NewLimiter(m, t)
    /\ th = [c \in Callers |-> IdleThread]

\* a thread calls ExecuteWithLimit and starts waiting for a slot
LimitCall(c) ==
    /\ th[c].pc = "idle"
    /\ th' = [th EXCEPT ![c] = [@ EXCEPT !.pc = "waiting",
                                         !.early = ~lim.ticked]]
    /\ UNCHANGED lim
    /\ UNCHANGED notLimiter

\* it obtains a slot and starts op
LimitAcquire(c) ==
    /\ th[c].pc = "waiting"
    /\ SlotFree(lim)
    /\ lim' = Acquired(lim, th[c].waited)
    /\ th' = [th EXCEPT ![c] = [@ EXCEPT !.pc = "running"]]
    /\ UNCHANGED notLimiter

\* lock_timeout has passed and every slot is still held
LimitTimeout(c) ==
    /\ th[c].pc = "waiting"
    /\ ~SlotFree(lim)
    /\ TimedOut(lim, th[c].waited)
    /\ th' = [th EXCEPT ![c] = [@ EXCEPT !.pc = "failed",
                                         !.result = "ConcurrencyLimitError"]]
    /\ UNCHANGED lim
    /\ UNCHANGED notLimiter

\* op returns: the slot is released and the result handed on
LimitReturn(c) ==
    /\ th[c].pc = "running"
    /\ lim' = Released(lim)
    /\ th' = [th EXCEPT ![c] = [@ EXCEPT !.pc = "done", !.result = "ok"]]
    /\ UNCHANGED notLimiter

\* op raises: the slot is released and the failure handed on
LimitRaise(c) ==
    /\ th[c].pc = "running"
    /\ lim' = ReleasedOnError(lim)
    /\ th' = [th EXCEPT ![c] = [@ EXCEPT !.pc = "done",
                                         !.result = "op_error"]]
    /\ UNCHANGED notLimiter

\* time passes for every waiting and every running thread; a free slot is
\* taken, a due timeout is reported and an op at MaxHold ends before it does
LimitTick ==
    /\ \E c \in Callers : th[c].pc \in {"waiting", "running"}
    /\ \A c \in Callers :
         /\ th[c].pc = "waiting" => (~SlotFree(lim) /\ ~TimedOut(lim, th[c].waited))
         /\ th[c].pc = "running" => th[c].held < MaxHold
    /\ th' = [c \in Callers |->
                IF th[c].pc = "waiting"
                THEN [th[c] EXCEPT !.waited = @ + 1]
                ELSE IF th[c].pc = "running"
                THEN [th[c] EXCEPT !.held = @ + 1]
                ELSE th[c]]
    /\ lim' = [lim EXCEPT !.ticked = TRUE]
    /\ UNCHANGED notLimiter

NextLimiter ==
    \/ \E c \in Callers : LimitCall(c)
    \/ \E c \in Callers : LimitAcquire(c)
    \/ \E c \in Callers : LimitTimeout(c)
    \/ \E c \in Callers : LimitReturn(c)
    \/ \E c \in Callers : LimitRaise(c)
    \/ LimitTick

\* ------------------------------------------------------------------------
\* Manager: submit(op, payload, priority)
\* ------------------------------------------------------------------------
\* pc       : idle, or retrying while ExecuteWithRetry runs op
\* priority : the priority given to the request in progress
\* outcome  : what the last submit returned
\* value    : the result carried by a Completed outcome
\* invoked  : how often op was invoked for the request
\* pre      : the breaker's failure_count when the request came in
\* exhausted: the last request invoked op and every attempt failed
\* submits, failing : requests so far, and those of them whose op failed
IdleManager ==
    [pc |-> "idle", priority |-> 0, outcome |-> "none", value |-> "None",
     invoked |-> 0, pre |-> 0, exhausted |-> FALSE, submits |-> 0,
     failing |-> 0]

\* the breaker after one failed attempt inside ExecuteWithRetry: the
\* failure is recorded once per request, after the retries, not here
AttemptFailureCounted(b, t) == RecordFailure(b, t, t)

AttemptFailure(b, t) == b

\* the priority the payload is queued with: the one given to submit
SubmitPriorityDefault(m) == DefaultPriority

SubmitPriority(m) == m.priority

\* queue.Enqueue(payload, priority) and what submit returns after it
SubmitEnqueuedAlways(qu) == "Queued"

SubmitEnqueued(qu) == IF EnqueueResult(qu) THEN "Queued" ELSE "QueueFullError"

SubmitPriorities == 1..MaxSubmitPriority

InitManager ==
    /\ \E k \in 1..MaxSubmitThreshold : cb = NewBreaker(k, MaxTimeout)
    /\ now = 0
    /\ last = NoCall
    /\ prev = NoSummary
    /\ obs = [streak |-> 0, tripped_at |-> NoTime, succeeded |-> FALSE,
              since |-> 0]
    /\ \E n \in 0..MaxAttempts : rp = NewRetry(n, 1, 2)
    /\ rc = IdleCall
    /\ rh = NoHistory
    /\ \E m \in 0..MaxQueued : q = NewQueue(m)
    /\ reg = <<>>
    /\ deq = <<>>
    /\ qlast = NoQueueCall
    /\ mg = IdleManager

\* submit while breaker.CanExecute() holds: ExecuteWithRetry(op) starts
SubmitAdmitted ==
    /\ mg.pc = "idle"
    /\ mg.submits < MaxSubmits
    /\ CanExecuteResult(cb, now)
    /\ \E pri \in SubmitPriorities :
         mg' = [mg EXCEPT !.pc = "retrying", !.priority = pri,
                          !.outcome = "none", !.value = "None",
                          !.invoked = 0,
                          !.pre = cb.failure_count, !.exhausted = FALSE,
                          !.submits = @ + 1]
    /\ cb' = CanExecuteEffect(cb, now)
    /\ rc' = [IdleCall EXCEPT !.pc = "loop"]
    /\ UNCHANGED <<now, last, prev, obs, rp, rh, queueVars, limiterVars, asideVars>>

\* submit while the circuit is open: op is not attempted, the payload is
\* queued
SubmitCircuitOpen ==
    /\ mg.pc = "idle"
    /\ mg.submits < MaxSubmits
    /\ ~CanExecuteResult(cb, now)
    /\ \E pri \in SubmitPriorities :
         /\ mg' = [mg EXCEPT !.outcome = SubmitEnqueued(q),
                             !.value = "None", !.invoked = 0,
                             !.pre = cb.failure_count, !.exhausted = FALSE,
                             !.submits = @ + 1]
         /\ q' = EnqueueEffect(q, Len(reg) + 1, pri)
         /\ qlast' = qlast
    /\ reg' = IF EnqueueResult(q) THEN Append(reg, NewItemStatus) ELSE reg
    /\ cb' = CanExecuteEffect(cb, now)
    /\ UNCHANGED <<now, last, prev, obs, retryVars, deq, limiterVars, asideVars>>

\* one pass of the retry loop inside the request
SubmitAttempt ==
    /\ mg.pc = "retrying"
    /\ rc.pc = "loop"
    /\ InRange(rc.attempt, rp)
    /\ \E o \in OpOutcomes :
         /\ rc' = IF o.ok THEN OnSuccess(rc, o.val)
                  ELSE OnFailure(rc, o.val, rp)
         /\ cb' = IF o.ok THEN cb ELSE AttemptFailure(cb, now)
    /\ mg' = [mg EXCEPT !.invoked = @ + 1]
    /\ UNCHANGED <<now, last, prev, obs, rp, rh, queueVars, limiterVars, asideVars>>

\* the sleep between two attempts
SubmitSleep ==
    /\ mg.pc = "retrying"
    /\ rc.pc = "sleep"
    /\ rc' = [rc EXCEPT !.pc = "loop", !.attempt = @ + 1]
    /\ UNCHANGED <<breakerVars, rp, rh, queueVars, limiterVars, asideVars, mg>>

\* ExecuteWithRetry returned: RecordSuccess and success(result)
SubmitCompleted ==
    /\ mg.pc = "retrying"
    /\ rc.pc = "returned"
    /\ cb' = RecordSuccess(cb)
    /\ mg' = [mg EXCEPT !.pc = "idle", !.outcome = "Completed",
                        !.value = rc.result, !.priority = 0]
    /\ rc' = IdleCall
    /\ UNCHANGED <<now, last, prev, obs, rp, rh, queueVars, limiterVars, asideVars>>

\* ExecuteWithRetry gave up: RecordFailure once, then the payload is queued
SubmitDegraded ==
    /\ mg.pc = "retrying"
    /\ rc.pc = "loop"
    /\ ~InRange(rc.attempt, rp)
    /\ \E d \in 0..MaxDrift :
         /\ now + d <= MaxTime
         /\ now' = now + d
         /\ cb' = RecordFailure(cb, now, now + d)
    /\ q' = EnqueueEffect(q, Len(reg) + 1, SubmitPriority(mg))
    /\ reg' = IF EnqueueResult(q) THEN Append(reg, NewItemStatus) ELSE reg
    /\ qlast' = qlast
    /\ mg' = [mg EXCEPT !.pc = "idle", !.outcome = SubmitEnqueued(q),
                        !.priority = 0, !.exhausted = TRUE,
                        !.failing = @ + 1]
    /\ rc' = IdleCall
    /\ UNCHANGED <<last, prev, obs, rp, rh, deq, limiterVars, asideVars>>

\* time passes between and during requests
ManagerTick ==
    /\ now < MaxTime
    /\ now' = now + 1
    /\ UNCHANGED <<cb, last, prev, obs, retryVars, queueVars, limiterVars, asideVars,
                   mg>>

NextManager ==
    \/ SubmitAdmitted
    \/ SubmitCircuitOpen
    \/ SubmitAttempt
    \/ SubmitSleep
    \/ SubmitCompleted
    \/ SubmitDegraded
    \/ ManagerTick

\* ------------------------------------------------------------------------
\* ProgressIndicator
\* ------------------------------------------------------------------------
\* the operation ids callers use
OpIds == {"op1", "op2"}

\* ProgressIndicator.__init__: config.get('update_interval', 1)
DefaultInterval == 1

\* ProgressIndicator.__init__: config.get('max_operation_time', 300)
DefaultMaxOperationTime == 300

\* the clock runs until every operation started in time can have expired
MaxClock == MaxOpTime + 1

\* the progress values callers pass to update_progress
Progresses == {-50, 99, 100, 150}

\* _get_total_steps for an operation type it has no entry for
DefaultSteps == 4

\* int(x) for the rational n / d, d > 0: the fraction is dropped
Trunc(n, d) == IF n >= 0 THEN n \div d ELSE -((-n) \div d)

NewIndicator(interval, limit) ==
    [update_interval |-> interval, max_operation_time |-> limit,
     active_operations |-> <<>>]

Active(p) == DOMAIN p.active_operations

\* the record execute() stores
NewOperation(t) ==
    [status |-> "started", progress |-> 0, start_time |-> t,
     total_steps |-> DefaultSteps, completed_steps |-> 0]

Put(p, id, rec) ==
    [p EXCEPT !.active_operations =
        [x \in DOMAIN @ \cup {id} |-> IF x = id THEN rec ELSE @[x]]]

\* del self.active_operations[operation_id]
Remove(p, id) ==
    [p EXCEPT !.active_operations = [x \in DOMAIN @ \ {id} |-> @[x]]]

\* execute(): refused for an id that is in active_operations
ExecuteRefusedNever(p, id) == FALSE

ExecuteRefusal(p, id) == id \in Active(p)

ExecuteEffect(p, id, t) ==
    IF ExecuteRefusal(p, id) THEN p ELSE Put(p, id, NewOperation(t))

\* max(0, min(progress, 100))
ClampUpper(progress) == IF progress > 100 THEN 100 ELSE progress

Clamp(progress) ==
    IF progress < 0 THEN 0 ELSE IF progress > 100 THEN 100 ELSE progress

\* update_progress(): the record after the update, and the removal of an
\* operation whose progress reached 100
UpdatedOperation(rec, progress) ==
    [rec EXCEPT !.progress = Clamp(progress),
                !.completed_steps = Trunc(progress * rec.total_steps, 100)]

UpdateFinishes(progress) == progress >= 100

UpdateEffect(p, id, progress) ==
    IF id \notin Active(p) THEN p
    ELSE IF UpdateFinishes(progress) THEN Remove(p, id)
    ELSE Put(p, id, UpdatedOperation(p.active_operations[id], progress))

\* complete_operation(): the id is removed
CompleteEffect(p, id) == IF id \in Active(p) THEN Remove(p, id) ELSE p

\* what complete_operation leaves of the operation it removed
NoCompletion == [id |-> "none", status |-> "none", error_message |-> "None"]

Completion(id, success, why) ==
    [id |-> id, status |-> IF success THEN "completed" ELSE "failed",
     error_message |-> why]

\* elapsed > self.max_operation_time
ExpiredLate(p, id, t) ==
    t - p.active_operations[id].start_time > p.max_operation_time + 1

Expired(p, id, t) ==
    t - p.active_operations[id].start_time > p.max_operation_time

\* the last call as its caller saw it
NoProgressCall ==
    [op |-> "none", id |-> "none", ok |-> FALSE, msg |-> "none"]

ProgressCall(op, id, ok, msg) ==
    [op |-> op, id |-> id, ok |-> ok, msg |-> msg]

\* when time.sleep(self.update_interval) ends; the clock stops at MaxClock
WakeTime(p, t) ==
    IF t + p.update_interval > MaxClock THEN MaxClock
    ELSE t + p.update_interval

\* a monitor thread: at the head of its loop, about to complete the
\* operation it found too old, asleep until wake, or ended
NewMonitor(id) == [id |-> id, pc |-> "test", wake |-> 0]

EndedMonitor == [id |-> "none", pc |-> "done", wake |-> 0]

\* one pass of the loop body of _monitor_progress up to the sleep: the
\* thread ends when the id is not in active_operations (the loop test, or
\* the KeyError of the read that follows it)
MonitorPass(m, p, t) ==
    IF m.id \notin Active(p) THEN EndedMonitor
    ELSE IF Expired(p, m.id, t) THEN [m EXCEPT !.pc = "expired"]
    ELSE IF WakeTime(p, t) <= t THEN m
    ELSE [m EXCEPT !.pc = "sleep", !.wake = WakeTime(p, t)]

\* a sleeping thread is back at the head of its loop once its time has come
Woken(m, t) ==
    IF m.pc = "sleep" /\ m.wake <= t THEN [m EXCEPT !.pc = "test", !.wake = 0]
    ELSE m

InitProgress ==
    /\ \E m \in 1..MaxOpTime : pi = NewIndicator(DefaultInterval, m)
    /\ pnow = 0
    /\ mon = <<>>
    /\ plast = NoProgressCall
    /\ pdone = NoCompletion

\* execute(operation_id, ...): the record is stored and its monitor thread
\* started, unless the id is active
StartOperation(id) ==
    /\ ExecuteRefusal(pi, id) \/ Len(mon) < MaxStarts
    /\ pi' = ExecuteEffect(pi, id, pnow)
    /\ mon' = IF ExecuteRefusal(pi, id) THEN mon
              ELSE Append(mon, NewMonitor(id))
    /\ plast' = IF ExecuteRefusal(pi, id)
                THEN ProgressCall("execute", id, FALSE, "already in progress")
                ELSE ProgressCall("execute", id, TRUE, "started")
    /\ UNCHANGED <<pnow, pdone>>
    /\ UNCHANGED notProgress

\* update_progress(operation_id, progress)
update_progress(id, progress) ==
    /\ pi' = UpdateEffect(pi, id, progress)
    /\ plast' = IF id \in Active(pi)
                THEN ProgressCall("update_progress", id, TRUE,
                                  "Progress updated")
                ELSE ProgressCall("update_progress", id, FALSE, "not found")
    /\ UNCHANGED <<pnow, mon, pdone>>
    /\ UNCHANGED notProgress

\* complete_operation(operation_id, success, error_message) by a caller
complete_operation(id, success) ==
    /\ pi' = CompleteEffect(pi, id)
    /\ pdone' = IF id \in Active(pi)
                THEN Completion(id, success,
                                IF success THEN "None" ELSE "caller_error")
                ELSE pdone
    /\ plast' = IF id \in Active(pi)
                THEN ProgressCall("complete_operation", id, TRUE, "completed")
                ELSE ProgressCall("complete_operation", id, FALSE,
                                  "not found")
    /\ UNCHANGED <<pnow, mon>>
    /\ UNCHANGED notProgress

\* _monitor_progress: the loop test, the read of the record and the
\* comparison of its age with max_operation_time
MonitorCheck(k) ==
    /\ k \in 1..Len(mon)
    /\ mon[k].pc = "test"
    /\ mon' = [mon EXCEPT ![k] = MonitorPass(@, pi, pnow)]
    /\ UNCHANGED <<pi, pnow, plast, pdone>>
    /\ UNCHANGED notProgress

\* complete_operation(operation_id, False, "Operation timed out"); break
MonitorExpire(k) ==
    /\ k \in 1..Len(mon)
    /\ mon[k].pc = "expired"
    /\ pi' = CompleteEffect(pi, mon[k].id)
    /\ pdone' = IF mon[k].id \in Active(pi)
                THEN Completion(mon[k].id, FALSE, "Operation timed out")
                ELSE pdone
    /\ mon' = [mon EXCEPT ![k] = EndedMonitor]
    /\ UNCHANGED <<pnow, plast>>
    /\ UNCHANGED notProgress

\* a second passes; the threads whose sleep is over resume
ProgressTick ==
    /\ pnow < MaxClock
    /\ pnow' = pnow + 1
    /\ mon' = [k \in 1..Len(mon) |-> Woken(mon[k], pnow + 1)]
    /\ UNCHANGED <<pi, plast, pdone>>
    /\ UNCHANGED notProgress

NextProgress ==
    \/ \E id \in OpIds : StartOperation(id)
    \/ \E id \in OpIds, progress \in Progresses : update_progress(id, progress)
    \/ \E id \in OpIds, success \in BOOLEAN : complete_operation(id, success)
    \/ \E k \in 1..MaxStarts : MonitorCheck(k)
    \/ \E k \in 1..MaxStarts : MonitorExpire(k)
    \/ ProgressTick

\* ------------------------------------------------------------------------
\* The breakers of the managers: one per manager and service name
\* ------------------------------------------------------------------------
Owners == {"m1", "m2"}
Services == {"payment", "inventory"}

\* the breakers in use: two services of one manager, and one of these
\* services at a second manager
PoolKeys == (Owners \X Services) \ {<<"m2", "inventory">>}

BreakerOps ==
    {"can_execute", "record_success", "record_failure", "execute_ok",
     "execute_error"}

\* the breaker b after op called at time t (execute: can_execute, and then
\* record_success or record_failure when the call was admitted)
After(op, b, t) ==
    IF op = "can_execute" THEN CanExecuteEffect(b, t)
    ELSE IF op = "record_success" THEN RecordSuccess(b)
    ELSE IF op = "record_failure" THEN RecordFailure(b, t, t)
    ELSE IF ~CanExecuteResult(b, t) THEN CanExecuteEffect(b, t)
    ELSE IF op = "execute_ok" THEN RecordSuccess(CanExecuteEffect(b, t))
    ELSE RecordFailure(CanExecuteEffect(b, t), t, t)

\* the call reaches the breaker object held under key k
ApplyToService(of, k, op, t) ==
    [x \in DOMAIN of |->
        IF x[2] = k[2] THEN After(op, of[x], t) ELSE of[x]]

Apply(of, k, op, t) == [of EXCEPT ![k] = After(op, @, t)]

NoPoolCall == [key |-> <<"none", "none">>, op |-> "none"]

\* every manager constructs its breakers from the same configuration
NewPool(threshold, timeout) ==
    [clock |-> 0,
     of |-> [k \in PoolKeys |-> NewBreaker(threshold, timeout)],
     last |-> NoPoolCall]

InitPool ==
    \E threshold \in 1..MaxPoolFailures : pool = NewPool(threshold, 1)

PoolCall(k, op) ==
    /\ op \in {"record_failure", "execute_error"}
          => pool.of[k].failure_count < MaxPoolFailures
    /\ pool' = [pool EXCEPT !.of = Apply(@, k, op, pool.clock),
                            !.last = [key |-> k, op |-> op]]
    /\ UNCHANGED notPool

PoolTick ==
    /\ pool.clock < MaxPoolTime
    /\ pool' = [pool EXCEPT !.clock = @ + 1]
    /\ UNCHANGED notPool

NextPool ==
    \/ \E k \in PoolKeys, op \in BreakerOps : PoolCall(k, op)
    \/ PoolTick

\* ------------------------------------------------------------------------
\* Several threads on one breaker: can_execute and record_failure statement
\* by statement (no lock is taken in base.py:70-98)
\* ------------------------------------------------------------------------
Racers == 1..NumRacers

\* op : the method called       pc  : the statement the thread is at
\* tmp: the failure_count read by `+= 1`
\* ret: what can_execute returned
\* at : the clock when the call started
IdleRacer ==
    [op |-> "none", pc |-> "idle", tmp |-> 0, ret |-> "none", at |-> 0]

\* the breaker before any of the threads started, and the threads
NewRace(b) == [start |-> b, th |-> [c \in Racers |-> IdleRacer]]

\* a breaker with threshold k that has counted c failures at time 0
Counted(k, c) ==
    IF c = 0 THEN NewBreaker(k, 1)
    ELSE IF c < k
    THEN [NewBreaker(k, 1) EXCEPT !.failure_count = c,
                                  !.last_failure_time = 0]
    ELSE [NewBreaker(k, 1) EXCEPT !.failure_count = c,
                                  !.last_failure_time = 0,
                                  !.state = "open",
                                  !.next_attempt_time = 1]

InitBreakerRace ==
    /\ \E k \in 1..MaxRaceThreshold, c \in 0..MaxRaceThreshold :
         c <= k /\ cb = Counted(k, c)
    /\ now = 0
    /\ last = NoCall
    /\ prev = NoSummary
    /\ obs = [streak |-> 0, tripped_at |-> NoTime, succeeded |-> FALSE,
              since |-> 0]
    /\ bt = NewRace(cb)

\* `self.failure_count += 1`, the write; `self.last_failure_time = now`
Stored(b, tmp, t) ==
    [b EXCEPT !.failure_count = tmp + 1, !.last_failure_time = t]

\* `if self.failure_count >= self.failure_threshold`
AtThreshold(b) == b.failure_count >= b.failure_threshold

\* `elif self.state == CircuitBreakerState.HALF_OPEN: return True`
AdmitsHalfOpenNever(b) == FALSE

AdmitsHalfOpen(b) == b.state = "half_open"

RaceStep(c, pc, tmp, ret) ==
    bt' = [bt EXCEPT !.th[c].pc = pc, !.th[c].tmp = tmp, !.th[c].ret = ret]

\* a thread calls can_execute or record_failure
RaceCall(c, op) ==
    /\ bt.th[c].pc = "idle"
    /\ bt' = [bt EXCEPT !.th[c] =
                [IdleRacer EXCEPT !.op = op, !.at = now,
                    !.pc = IF op = "can_execute" THEN "closed?" ELSE "load"]]
    /\ UNCHANGED <<cb, now>>
    /\ UNCHANGED notBreakerRace

\* record_failure: `self.failure_count += 1` reads ...
FailLoad(c) ==
    /\ bt.th[c].pc = "load"
    /\ RaceStep(c, "store", cb.failure_count, "none")
    /\ UNCHANGED <<cb, now>>
    /\ UNCHANGED notBreakerRace

\* ... and writes
FailStore(c) ==
    /\ bt.th[c].pc = "store"
    /\ cb' = Stored(cb, bt.th[c].tmp, now)
    /\ RaceStep(c, "compare", bt.th[c].tmp, "none")
    /\ UNCHANGED now
    /\ UNCHANGED notBreakerRace

FailCompare(c) ==
    /\ bt.th[c].pc = "compare"
    /\ RaceStep(c, IF AtThreshold(cb) THEN "trip" ELSE "done", bt.th[c].tmp,
                "none")
    /\ UNCHANGED <<cb, now>>
    /\ UNCHANGED notBreakerRace

\* `self.state = CircuitBreakerState.OPEN`
FailTrip(c) ==
    /\ bt.th[c].pc = "trip"
    /\ cb' = [cb EXCEPT !.state = "open"]
    /\ RaceStep(c, "deadline", bt.th[c].tmp, "none")
    /\ UNCHANGED now
    /\ UNCHANGED notBreakerRace

\* `self.next_attempt_time = now + timedelta(seconds=self.timeout_duration)`
FailDeadline(c) ==
    /\ bt.th[c].pc = "deadline"
    /\ cb' = [cb EXCEPT !.next_attempt_time = now + cb.timeout_duration]
    /\ RaceStep(c, "done", bt.th[c].tmp, "none")
    /\ UNCHANGED now
    /\ UNCHANGED notBreakerRace

\* can_execute: `if self.state == CircuitBreakerState.CLOSED`
CanClosed(c) ==
    /\ bt.th[c].pc = "closed?"
    /\ IF cb.state = "closed" THEN RaceStep(c, "done", 0, "true")
       ELSE RaceStep(c, "open?", 0, "none")
    /\ UNCHANGED <<cb, now>>
    /\ UNCHANGED notBreakerRace

\* `elif self.state == CircuitBreakerState.OPEN`
CanOpen(c) ==
    /\ bt.th[c].pc = "open?"
    /\ IF cb.state = "open" THEN RaceStep(c, "elapsed?", 0, "none")
       ELSE RaceStep(c, "half_open?", 0, "none")
    /\ UNCHANGED <<cb, now>>
    /\ UNCHANGED notBreakerRace

\* `if self.next_attempt_time and now >= self.next_attempt_time`
CanElapsed(c) ==
    /\ bt.th[c].pc = "elapsed?"
    /\ IF Elapsed(cb, now) THEN RaceStep(c, "probe", 0, "none")
       ELSE RaceStep(c, "done", 0, "false")
    /\ UNCHANGED <<cb, now>>
    /\ UNCHANGED notBreakerRace

\* `self.state = CircuitBreakerState.HALF_OPEN; return True`
CanProbe(c) ==
    /\ bt.th[c].pc = "probe"
    /\ cb' = [cb EXCEPT !.state = "half_open"]
    /\ RaceStep(c, "done", 0, "true")
    /\ UNCHANGED now
    /\ UNCHANGED notBreakerRace

\* `elif self.state == CircuitBreakerState.HALF_OPEN: return True`, and the
\* `return False` after it
CanHalfOpen(c) ==
    /\ bt.th[c].pc = "half_open?"
    /\ RaceStep(c, "done", 0, BoolStr(AdmitsHalfOpen(cb)))
    /\ UNCHANGED <<cb, now>>
    /\ UNCHANGED notBreakerRace

RaceTick ==
    /\ now < MaxRaceTime
    /\ now' = now + 1
    /\ UNCHANGED <<cb, bt>>
    /\ UNCHANGED notBreakerRace

NextBreakerRace ==
    \/ \E c \in Racers : RaceCall(c, "can_execute")
    \/ \E c \in Racers : RaceCall(c, "record_failure")
    \/ \E c \in Racers : FailLoad(c)
    \/ \E c \in Racers : FailStore(c)
    \/ \E c \in Racers : FailCompare(c)
    \/ \E c \in Racers : FailTrip(c)
    \/ \E c \in Racers : FailDeadline(c)
    \/ \E c \in Racers : CanClosed(c)
    \/ \E c \in Racers : CanOpen(c)
    \/ \E c \in Racers : CanElapsed(c)
    \/ \E c \in Racers : CanProbe(c)
    \/ \E c \in Racers : CanHalfOpen(c)
    \/ RaceTick

\* ------------------------------------------------------------------------
\* Several threads on one queue: enqueue and dequeue statement by statement
\* (no lock is taken in base.py:115-134)
\* ------------------------------------------------------------------------
Producers == 1..NumProducers

\* a producer enqueues the item that bears its number
IdleProducer == [pc |-> "idle", priority |-> 0, ret |-> "none"]

\* the consumer, and what its dequeue calls returned so far
IdleConsumer == [pc |-> "idle", got |-> <<>>]

NewQueueRace ==
    [producer |-> [c \in Producers |-> IdleProducer],
     consumer |-> IdleConsumer]

InitQueueRace ==
    /\ \E m \in 1..MaxRaceSize : q = NewQueue(m)
    /\ reg = <<>>
    /\ deq = <<>>
    /\ qlast = NoQueueCall
    /\ qt = NewQueueRace

EnqueueCall(c, pri) ==
    /\ qt.producer[c].pc = "idle"
    /\ qt.producer[c].ret = "none"
    /\ qt' = [qt EXCEPT !.producer[c].pc = "full?",
                        !.producer[c].priority = pri]
    /\ UNCHANGED q
    /\ UNCHANGED notQueueRace

\* `if len(self.items) >= self.max_size: return False`
EnqueueCheck(c) ==
    /\ qt.producer[c].pc = "full?"
    /\ qt' = IF IsFull(q)
             THEN [qt EXCEPT !.producer[c].pc = "idle",
                             !.producer[c].ret = "false"]
             ELSE [qt EXCEPT !.producer[c].pc = "append"]
    /\ UNCHANGED q
    /\ UNCHANGED notQueueRace

\* `self.items.append({...})`
EnqueueAppend(c) ==
    /\ qt.producer[c].pc = "append"
    /\ q' = [q EXCEPT !.items = Append(@, Entry(c, qt.producer[c].priority))]
    /\ qt' = [qt EXCEPT !.producer[c].pc = "sort"]
    /\ UNCHANGED notQueueRace

\* `self.items.sort(...); return True`
EnqueueSort(c) ==
    /\ qt.producer[c].pc = "sort"
    /\ q' = [q EXCEPT !.items = SortDesc(@)]
    /\ qt' = [qt EXCEPT !.producer[c].pc = "idle",
                        !.producer[c].ret = "true"]
    /\ UNCHANGED notQueueRace

DequeueCall ==
    /\ qt.consumer.pc = "idle"
    /\ Len(qt.consumer.got) < MaxRaceDequeues
    /\ qt' = [qt EXCEPT !.consumer.pc = "empty?"]
    /\ UNCHANGED q
    /\ UNCHANGED notQueueRace

\* `if not self.items: return None`
DequeueCheck ==
    /\ qt.consumer.pc = "empty?"
    /\ qt' = IF q.items = <<>>
             THEN [qt EXCEPT !.consumer.pc = "idle",
                             !.consumer.got = Append(@, NoItem)]
             ELSE [qt EXCEPT !.consumer.pc = "pop"]
    /\ UNCHANGED q
    /\ UNCHANGED notQueueRace

\* `return self.items.pop(0)['item']` (the only thread that removes)
DequeuePop ==
    /\ qt.consumer.pc = "pop"
    /\ q' = DequeueEffect(q)
    /\ qt' = [qt EXCEPT !.consumer.pc = "idle",
                        !.consumer.got = Append(@, DequeueResult(q))]
    /\ UNCHANGED notQueueRace

NextQueueRace ==
    \/ \E c \in Producers, pri \in 1..MaxRacePriority : EnqueueCall(c, pri)
    \/ \E c \in Producers : EnqueueCheck(c)
    \/ \E c \in Producers : EnqueueAppend(c)
    \/ \E c \in Producers : EnqueueSort(c)
    \/ DequeueCall
    \/ DequeueCheck
    \/ DequeuePop

\* ------------------------------------------------------------------------
\* BasePublisher
\* ------------------------------------------------------------------------
Subscribers == {"s1", "s2", "s3"}
Messages == {"m1", "m2"}

\* __init__: no subscribers
NewPublisher == [subscribers |-> <<>>]

\* `subscriber in self.subscribers`
Subscribed(p, who) == \E i \in 1..Len(p.subscribers) : p.subscribers[i] = who

\* subscribe: appended unless already in the list
SubscribeEffect(p, who) ==
    IF Subscribed(p, who) THEN p
    ELSE [p EXCEPT !.subscribers = Append(@, who)]

\* list.remove: the first occurrence goes, the rest keeps its order
RECURSIVE Without(_, _)
Without(s, who) ==
    IF s = <<>> THEN <<>>
    ELSE IF Head(s) = who THEN Tail(s)
    ELSE <<Head(s)>> \o Without(Tail(s), who)

\* unsubscribe
UnsubscribeEffect(p, who) ==
    IF Subscribed(p, who) THEN [p EXCEPT !.subscribers = Without(@, who)]
    ELSE p

\* publish: the loop over self.subscribers; raising holds the subscribers
\* whose receive() raises an Exception this time
\* received : who was handed the message, in order
\* logged   : whose exception was caught and logged, in order
\* raised   : whether an exception left publish
RECURSIVE NotifyUntilError(_, _)
NotifyUntilError(s, raising) ==
    IF s = <<>> THEN [received |-> <<>>, logged |-> <<>>, raised |-> FALSE]
    ELSE IF Head(s) \in raising
    THEN [received |-> <<Head(s)>>, logged |-> <<>>, raised |-> TRUE]
    ELSE LET rest == NotifyUntilError(Tail(s), raising) IN
         [rest EXCEPT !.received = <<Head(s)>> \o @]

RECURSIVE Notify(_, _)
Notify(s, raising) ==
    IF s = <<>> THEN [received |-> <<>>, logged |-> <<>>, raised |-> FALSE]
    ELSE LET rest == Notify(Tail(s), raising) IN
         [rest EXCEPT !.received = <<Head(s)>> \o @,
                      !.logged = IF Head(s) \in raising
                                 THEN <<Head(s)>> \o @ ELSE @]

\* the last call on the publisher, with the subscribers before it
NoPublisherCall ==
    [op |-> "none", arg |-> "none", before |-> <<>>,
     done |-> Notify(<<>>, {})]

PublisherCall(op, arg, before, done) ==
    [op |-> op, arg |-> arg, before |-> before, done |-> done]

InitPublisher ==
    /\ pub = NewPublisher
    /\ sent = NoPublisherCall

subscribe(who) ==
    /\ pub' = SubscribeEffect(pub, who)
    /\ sent' = PublisherCall("subscribe", who, pub.subscribers,
                             Notify(<<>>, {}))
    /\ UNCHANGED notPublisher

unsubscribe(who) ==
    /\ pub' = UnsubscribeEffect(pub, who)
    /\ sent' = PublisherCall("unsubscribe", who, pub.subscribers,
                             Notify(<<>>, {}))
    /\ UNCHANGED notPublisher

publish(message, raising) ==
    /\ pub' = pub
    /\ sent' = PublisherCall("publish", message, pub.subscribers,
                             Notify(pub.subscribers, raising))
    /\ UNCHANGED notPublisher

NextPublisher ==
    \/ \E who \in Subscribers : subscribe(who)
    \/ \E who \in Subscribers : unsubscribe(who)
    \/ \E message \in Messages, raising \in SUBSET Subscribers :
         publish(message, raising)

\* ------------------------------------------------------------------------
\* Specifications
\* ------------------------------------------------------------------------
\* the retry object at its defaults (max_attempts 3, delay 1.0 s, factor 2.0)
RetryAtRest ==
    /\ rp = NewRetry(3, 10, 2)
    /\ rc = IdleCall
    /\ rh = NoHistory

\* the breaker at its defaults (failure_threshold 5, timeout_duration 60)
BreakerAtRest ==
    /\ cb = NewBreaker(5, 60)
    /\ now = 0
    /\ last = NoCall
    /\ prev = NoSummary
    /\ obs = [streak |-> 0, tripped_at |-> NoTime, succeeded |-> FALSE,
              since |-> 0]

\* the queue at its default (max_size 1000), nothing admitted yet
QueueAtRest ==
    /\ q = NewQueue(1000)
    /\ reg = <<>>
    /\ deq = <<>>
    /\ qlast = NoQueueCall

\* the limiter with one slot and no waiting, no thread calling it
LimiterAtRest ==
    /\ lim = NewLimiter(1, 0)
    /\ th = [c \in Callers |-> IdleThread]

ManagerAtRest == mg = IdleManager

\* ProgressIndicator({}): update_interval 1, max_operation_time 300
ProgressAtRest ==
    /\ pi = NewIndicator(DefaultInterval, DefaultMaxOperationTime)
    /\ pnow = 0
    /\ mon = <<>>
    /\ plast = NoProgressCall
    /\ pdone = NoCompletion

\* no manager was built, so no breaker of a manager exists
PoolAtRest == pool = <<>>

\* no thread was started on the breaker or on the queue
RaceAtRest == bt = <<>> /\ qt = <<>>

\* a publisher nobody subscribed to
PublisherAtRest == InitPublisher

\* the components beside the sequential availability tactics, untouched
AsideAtRest == ProgressAtRest /\ PoolAtRest /\ RaceAtRest /\ PublisherAtRest

Init ==
    InitBreaker /\ RetryAtRest /\ QueueAtRest /\ LimiterAtRest
    /\ ManagerAtRest /\ AsideAtRest
Next == NextBreaker
Spec == Init /\ [][Next]_vars

RetryInit ==
    BreakerAtRest /\ InitRetry /\ QueueAtRest /\ LimiterAtRest
    /\ ManagerAtRest /\ AsideAtRest
RetrySpec == RetryInit /\ [][NextRetry]_vars

QueueInit ==
    BreakerAtRest /\ RetryAtRest /\ InitQueue /\ LimiterAtRest
    /\ ManagerAtRest /\ AsideAtRest
QueueSpec == QueueInit /\ [][NextQueue]_vars
StatusSpec == QueueInit /\ [][NextStatus]_vars

LimiterInit ==
    BreakerAtRest /\ RetryAtRest /\ QueueAtRest /\ InitLimiter
    /\ ManagerAtRest /\ AsideAtRest
LimiterSpec == LimiterInit /\ [][NextLimiter]_vars

ManagerInit == InitManager /\ LimiterAtRest /\ AsideAtRest
ManagerSpec == ManagerInit /\ [][NextManager]_vars

\* the manager together with the drain loop working on its queue
\* (a sequence of calls: the drain loop acts between two requests; the
\* breaker opens on the first failed request, so that requests are refused
\* as well as admitted within MaxDrained submits)
NextDrain ==
    \/ (SubmitAdmitted \/ SubmitCircuitOpen) /\ mg.submits < MaxDrained
    \/ SubmitAttempt
    \/ SubmitSleep
    \/ SubmitCompleted
    \/ SubmitDegraded
    \/ dequeue /\ mg.pc = "idle"
    \/ MarkCompleted /\ mg.pc = "idle"
    \/ MarkFailed /\ mg.pc = "idle"

DrainInit ==
    /\ ManagerInit
    /\ cb.failure_threshold = 1
    /\ rp.max_attempts = 2
    /\ q.max_size <= MaxDrained
DrainSpec == DrainInit /\ [][NextDrain]_vars

ProgressInit ==
    BreakerAtRest /\ RetryAtRest /\ QueueAtRest /\ LimiterAtRest
    /\ ManagerAtRest /\ InitProgress
    /\ PoolAtRest /\ RaceAtRest /\ PublisherAtRest
ProgressSpec == ProgressInit /\ [][NextProgress]_vars

PublisherInit ==
    BreakerAtRest /\ RetryAtRest /\ QueueAtRest /\ LimiterAtRest
    /\ ManagerAtRest /\ ProgressAtRest /\ PoolAtRest /\ RaceAtRest
    /\ InitPublisher
PublisherSpec == PublisherInit /\ [][NextPublisher]_vars

PoolInit ==
    BreakerAtRest /\ RetryAtRest /\ QueueAtRest /\ LimiterAtRest
    /\ ManagerAtRest /\ ProgressAtRest /\ InitPool /\ RaceAtRest
    /\ PublisherAtRest
PoolSpec == PoolInit /\ [][NextPool]_vars

BreakerRaceInit ==
    /\ InitBreakerRace
    /\ qt = <<>>
    /\ RetryAtRest /\ QueueAtRest /\ LimiterAtRest /\ ManagerAtRest
    /\ ProgressAtRest /\ PoolAtRest /\ PublisherAtRest
BreakerRaceSpec == BreakerRaceInit /\ [][NextBreakerRace]_vars

QueueRaceInit ==
    /\ InitQueueRace
    /\ bt = <<>>
    /\ BreakerAtRest /\ RetryAtRest /\ LimiterAtRest /\ ManagerAtRest
    /\ ProgressAtRest /\ PoolAtRest /\ PublisherAtRest
QueueRaceSpec == QueueRaceInit /\ [][NextQueueRace]_vars

\* the calls that start and end operations, beside the monitor threads
NextTimeout ==
    \/ \E id \in OpIds : StartOperation(id)
    \/ \E id \in OpIds : update_progress(id, 100)
    \/ \E id \in OpIds, success \in BOOLEAN : complete_operation(id, success)
    \/ \E k \in 1..MaxStarts : MonitorCheck(k)
    \/ \E k \in 1..MaxStarts : MonitorExpire(k)
    \/ ProgressTick

\* the clock keeps running and every monitor thread (a daemon thread of its
\* own) keeps being scheduled; nothing is assumed of the callers
TimeoutSpec ==
    /\ ProgressInit
    /\ [][NextTimeout]_vars
    /\ WF_vars(ProgressTick)
    /\ \A k \in 1..MaxStarts : WF_vars(MonitorCheck(k) \/ MonitorExpire(k))

\* ------------------------------------------------------------------------
\* Circuit breaker properties (checked under Spec)
\* ------------------------------------------------------------------------

\* C1: for a threshold k >= 1, the k-th consecutive record_failure counted
\* from a Closed breaker with failure_count 0 leaves the breaker Open, and a
\* can_execute that follows it before timeout_duration has passed returns
\* false.
C1_TripsAtThreshold ==
    cb.failure_threshold >= 1 =>
      /\ (last.op = "record_failure" /\ obs.streak = cb.failure_threshold)
            => cb.state = "open"
      /\ (/\ last.op = "can_execute"
          /\ prev.op = "record_failure"
          /\ prev.streak = cb.failure_threshold
          /\ last.at < prev.t + cb.timeout_duration)
            => (last.ret = "false" /\ cb.state = "open")

C1_Witness ==
    /\ cb.failure_threshold = 2
    /\ last.op = "can_execute"
    /\ prev.op = "record_failure"
    /\ prev.streak = 2
    /\ last.at < prev.t + cb.timeout_duration
    /\ last.ret = "false"

\* C2: with T the clock reading at which the breaker went from Closed or
\* HalfOpen to Open, a can_execute on the Open breaker returns false and
\* leaves it Open before T + timeout_duration, and returns true and makes it
\* HalfOpen at or after T + timeout_duration.
C2_RecoversAtTimeout ==
    (validate_config(cb) /\ last.op = "can_execute" /\ last.pre.state = "open")
      => IF last.at < obs.tripped_at + cb.timeout_duration
         THEN last.ret = "false" /\ cb.state = "open"
         ELSE last.ret = "true" /\ cb.state = "half_open"

\* C3: execute on a breaker whose can_execute is false returns
\* CircuitOpenError at once, never runs func, and leaves state,
\* failure_count and next_attempt_time as they were.
C3_RefusedExecuteIsInert ==
    (last.op = "execute" /\ ~CanExecuteResult(last.pre, last.at))
      => /\ last.ret = "CircuitOpenError"
         /\ last.invoked = 0
         /\ last.out = "none"
         /\ last.t = last.at
         /\ cb.state = last.pre.state
         /\ cb.failure_count = last.pre.failure_count
         /\ cb.next_attempt_time = last.pre.next_attempt_time

C3_Witness ==
    /\ validate_config(cb)
    /\ last.op = "execute"
    /\ last.pre.state = "open"
    /\ last.ret = "CircuitOpenError"
    /\ cb.state = "open"

\* C4: record_success leaves failure_count 0 and state Closed whatever the
\* state and count before it; after a record_success, fewer than
\* failure_threshold record_failure calls leave the breaker Closed with
\* exactly that many failures counted.
C4_SuccessResets ==
    /\ last.op = "record_success"
          => (cb.state = "closed" /\ cb.failure_count = 0)
    /\ (/\ cb.failure_threshold >= 1
        /\ obs.succeeded
        /\ obs.since <= cb.failure_threshold - 1)
          => (cb.state = "closed" /\ cb.failure_count = obs.since)

C4_Witness ==
    /\ validate_config(cb)
    /\ cb.failure_threshold = 2
    /\ prev.op = "record_success"
    /\ prev.from = "open"
    /\ last.op = "record_failure"
    /\ last.pre.failure_count = 0
    /\ obs.since = 1
    /\ cb.state = "closed"

\* C5: an admitted execute runs func exactly once and hands its result or
\* its error to the caller; after a result the breaker is Closed with
\* failure_count 0, after an error failure_count is one more than before.
C5_AdmittedExecuteRecords ==
    (last.op = "execute" /\ CanExecuteResult(last.pre, last.at))
      => /\ last.invoked = 1
         /\ last.out \in Results \cup Errors
         /\ last.ret = last.out
         /\ last.out \in Results
               => (cb.state = "closed" /\ cb.failure_count = 0)
         /\ last.out \in Errors
               => cb.failure_count = last.pre.failure_count + 1

C5_Witness ==
    /\ validate_config(cb)
    /\ last.op = "execute"
    /\ last.pre.state = "closed"
    /\ last.pre.failure_count = 1
    /\ last.out \in Errors
    /\ last.ret = last.out
    /\ cb.failure_count = 2

\* C6: a record_failure on a breaker that is already Open leaves
\* next_attempt_time as it was.
C6_OpenFailureKeepsDeadline ==
    (validate_config(cb) /\ last.op = "record_failure"
       /\ last.pre.state = "open")
      => cb.next_attempt_time = last.pre.next_attempt_time

\* ------------------------------------------------------------------------
\* Retry properties (checked under RetrySpec)
\* ------------------------------------------------------------------------
Finished == rc.pc \in {"returned", "raised"}

Failed(s) == {i \in 1..Len(s) : ~s[i].ok}

AllFailed(s) == \A i \in 1..Len(s) : ~s[i].ok

Min(a, b) == IF a < b THEN a ELSE b

\* C7: func is never invoked more than max_attempts times by one call, and
\* for max_attempts >= 1 a call in which every invocation failed ends by
\* raising after exactly max_attempts invocations.
C7_AttemptsBounded ==
    /\ Len(rh.outcomes) <= rp.max_attempts
    /\ (rp.max_attempts >= 1 /\ Finished /\ AllFailed(rh.outcomes))
          => (rc.pc = "raised" /\ Len(rh.outcomes) = rp.max_attempts)

C7_Witness ==
    /\ rp.max_attempts = 3
    /\ rc.pc = "raised"
    /\ Len(rh.outcomes) = 3
    /\ AllFailed(rh.outcomes)

\* C8: the first invocation that succeeds is the last one: the call has
\* then returned that invocation's result, every earlier invocation failed,
\* and one sleep was taken per earlier failure and none after the success.
C8_FirstSuccessReturns ==
    /\ \A i \in 1..Len(rh.outcomes) :
         rh.outcomes[i].ok
           => /\ i = Len(rh.outcomes)
              /\ rc.pc = "returned"
              /\ rc.result = rh.outcomes[i].val
              /\ Len(rh.sleeps) = i - 1
    /\ rc.pc = "returned"
          => (rh.outcomes # <<>> /\ rh.outcomes[Len(rh.outcomes)].ok)

C8_Witness ==
    /\ rc.pc = "returned"
    /\ Len(rh.outcomes) = 3
    /\ ~rh.outcomes[1].ok
    /\ ~rh.outcomes[2].ok
    /\ rh.outcomes[3].ok
    /\ rc.result = rh.outcomes[3].val
    /\ Len(rh.sleeps) = 2

\* C9: when the call raises after at least one invocation, what it raises
\* is the error of the last invocation.
C9_RaisesLastError ==
    (rc.pc = "raised" /\ rh.outcomes # <<>>)
      => rc.result = rh.outcomes[Len(rh.outcomes)].val

C9_Witness ==
    /\ rc.pc = "raised"
    /\ Len(rh.outcomes) >= 2
    /\ rh.outcomes[1].val # rh.outcomes[Len(rh.outcomes)].val
    /\ rc.result = rh.outcomes[Len(rh.outcomes)].val

\* C10: the i-th sleep (i counted from 0) lasts delay * backoff_factor^i;
\* a sleep follows a failed invocation only when that invocation was not
\* the last one allowed; with max_attempts 3, delay 0.1 s and factor 2 a
\* call that fails throughout sleeps 0.1 s then 0.2 s, takes at least 0.3 s
\* and invokes func 3 times.
C10_BackoffBetweenAttempts ==
    /\ \A i \in 1..Len(rh.sleeps) :
         rh.sleeps[i] = rp.delay * Pow(rp.backoff_factor, i - 1)
    /\ rh.elapsed >= Sum(rh.sleeps)
    /\ rp.max_attempts >= 1 =>
         Len(rh.sleeps) =
           IF rc.pc = "sleep"
           THEN Cardinality(Failed(rh.outcomes)) - 1
           ELSE Min(Cardinality(Failed(rh.outcomes)), rp.max_attempts - 1)
    /\ (rc.pc = "raised" /\ rp = NewRetry(3, 1, 2))
          => /\ rh.sleeps = <<1, 2>>
             /\ rh.elapsed >= 3
             /\ Len(rh.outcomes) = 3

C10_Witness ==
    /\ rc.pc = "raised"
    /\ rp = NewRetry(3, 1, 2)
    /\ rh.sleeps = <<1, 2>>
    /\ Len(rh.outcomes) = 3

\* ------------------------------------------------------------------------
\* Queue properties (checked under QueueSpec)
\* ------------------------------------------------------------------------
\* a is served before b: higher priority, or equal priority and older
Before(a, b) ==
    \/ a.priority > b.priority
    \/ a.priority = b.priority /\ a.timestamp < b.timestamp

InQueue(qu) == {qu.items[i] : i \in 1..Len(qu.items)}

\* C12: every dequeue on a non-empty queue returns the entry that is served
\* before all other entries then in the queue: highest priority first, and
\* among equal priorities the one enqueued first; enqueues and dequeues may
\* interleave freely.
C12_DequeueOrder ==
    [][(qlast'.op = "dequeue" /\ q.items # <<>>)
         => /\ deq' = Append(deq, deq'[Len(deq')])
            /\ deq'[Len(deq')] \in InQueue(q)
            /\ qlast'.item = deq'[Len(deq')].item
            /\ \A e \in InQueue(q) :
                 e = deq'[Len(deq')] \/ Before(deq'[Len(deq')], e)]_vars

C12_Witness ==
    /\ deq = <<Entry(1, 3), Entry(3, 2), Entry(2, 1)>>
    /\ qlast.op = "dequeue"
    /\ qlast.item = 2

\* C13: an enqueue on a queue that holds max_size items is refused and
\* leaves the items, their order and the item statuses as they were; after
\* any step the queue holds at most max_size items.
C13_FullQueueRejects ==
    [][/\ (qlast'.op = "enqueue" /\ Len(q.items) >= q.max_size)
            => (qlast'.ret = "QueueFullError" /\ q' = q /\ reg' = reg)
       /\ Len(q'.items) <= q'.max_size]_vars

C13_Witness ==
    /\ q.max_size = 2
    /\ qlast.op = "enqueue"
    /\ qlast.ret = "QueueFullError"
    /\ Len(q.items) = 2
    /\ Len(reg) = 2

\* C16: a dequeue on an empty queue returns None and changes nothing; a
\* dequeue on a non-empty queue returns the first entry and removes exactly
\* that entry; no item is returned by two dequeue calls.
C16_DequeueRemoves ==
    [][qlast'.op = "dequeue"
         => /\ IF q.items = <<>>
               THEN qlast'.ret = "None" /\ qlast'.item = NoItem
                    /\ q' = q /\ deq' = deq
               ELSE qlast'.ret = "item"
                    /\ qlast'.item = Head(q.items).item
                    /\ q'.items = Tail(q.items)
                    /\ deq' = Append(deq, Head(q.items))
                    /\ \A e \in InQueue(q') : e.item # qlast'.item
            /\ \A i, j \in 1..Len(deq') :
                 i # j => deq'[i].item # deq'[j].item]_vars

C16_Witness ==
    /\ qlast.op = "dequeue"
    /\ qlast.ret = "None"
    /\ q.items = <<>>
    /\ Len(deq) = 2

\* ------------------------------------------------------------------------
\* Item status properties (checked under StatusSpec)
\* ------------------------------------------------------------------------
IsTerminal(st) == st.status \in {"completed", "failed"}

\* C14: an item is pending when it is admitted; its status changes at most
\* once, from pending to completed by MarkCompleted or to failed by
\* MarkFailed with the reason as error message; a completed or failed item
\* never changes again, and only failed items carry an error message.
C14_StatusChangesOnce ==
    [][/\ Len(reg') >= Len(reg)
       /\ \A id \in 1..Len(reg') :
            /\ id > Len(reg) => reg'[id] = NewItemStatus
            /\ (id <= Len(reg) /\ IsTerminal(reg[id]))
                  => reg'[id] = reg[id]
            /\ (id <= Len(reg) /\ reg'[id] # reg[id])
                  => \/ /\ reg'[id].status = "completed"
                        /\ reg'[id].error_message = "None"
                        /\ qlast'.op = "mark_completed"
                     \/ /\ reg'[id].status = "failed"
                        /\ reg'[id].error_message \in Reasons
                        /\ qlast'.op = "mark_failed"
            /\ reg'[id].error_message # "None"
                  => reg'[id].status = "failed"]_vars

C14_Witness ==
    /\ Len(reg) >= 3
    /\ reg[1] = [status |-> "failed", error_message |-> "why2"]
    /\ reg[2] = [status |-> "completed", error_message |-> "None"]
    /\ reg[3] = NewItemStatus
    /\ qlast.ret = "InvalidStateError"

\* C15: MarkCompleted and MarkFailed on an id that was never assigned, or on
\* an item that is already completed or failed, end with InvalidStateError
\* and leave every item's status and error message as they were.
C15_InvalidMarkRefused ==
    [][(/\ qlast'.op \in {"mark_completed", "mark_failed"}
        /\ \/ qlast'.arg \notin 1..Len(reg)
           \/ IsTerminal(reg[qlast'.arg]))
         => (qlast'.ret = "InvalidStateError" /\ reg' = reg)]_vars

C15_Witness ==
    /\ qlast.op = "mark_failed"
    /\ qlast.ret = "InvalidStateError"
    /\ qlast.arg \in 1..Len(reg)
    /\ reg[qlast.arg].status = "completed"

Withdrawn == {deq[i].item : i \in 1..Len(deq)}

C11_OneFailurePerRequest ==
    /\ (mg.pc = "idle" /\ mg.exhausted) => cb.failure_count = mg.pre + 1
    /\ mg.pc = "retrying" => cb.failure_count = mg.pre
    /\ mg.failing < cb.failure_threshold => cb.state # "open"

\* two requests of three failed attempts each against a threshold of two:
\* after the first the breaker is still closed with one failure counted
C11_Witness ==
    /\ cb.failure_threshold = 2
    /\ rp.max_attempts = 3
    /\ mg.pc = "idle"
    /\ mg.exhausted
    /\ mg.invoked = 3
    /\ mg.failing = 1
    /\ cb.failure_count = 1
    /\ cb.state = "closed"

\* the last submit found the circuit open, after failure_threshold
\* submits, all of which had failed
RefusedAfterTrip ==
    /\ mg.pc = "idle"
    /\ mg.submits = cb.failure_threshold + 1
    /\ mg.failing = cb.failure_threshold
    /\ ~mg.exhausted
    /\ mg.outcome # "Completed"

DegradedStep ==
    /\ mg.pc = "retrying"
    /\ mg'.pc = "idle"
    /\ mg'.exhausted

ReturnStep == mg' # mg /\ mg'.outcome # "none"

\* C23: a submit that has to queue its payload while the queue is full
\* returns QueueFullError and leaves the queue as it was; Queued is returned
\* only for a payload admitted to the queue on that step, and Completed only
\* for an op that returned.
C23_FullQueueSurfaces ==
    [][ReturnStep =>
         /\ (Len(q.items) >= q.max_size /\ rc.pc # "returned") =>
              /\ mg'.outcome = "QueueFullError"
              /\ q' = q
              /\ reg' = reg
         /\ mg'.outcome = "Queued" =>
              /\ Len(reg') = Len(reg) + 1
              /\ \E e \in InQueue(q') : e.item = Len(reg')
         /\ mg'.outcome = "Completed" => rc.pc = "returned"]_vars

C23_Witness ==
    /\ mg.pc = "idle"
    /\ mg.outcome = "QueueFullError"
    /\ ~mg.exhausted
    /\ cb.state = "open"
    /\ q.max_size = 1
    /\ size(q) = 1

\* C30: when the admitted op returns, submit records a success on the
\* breaker (closed, no failures counted), returns Completed with op's
\* result, and changes nothing in the queue.
C30_SuccessLeavesQueue ==
    [][(mg.pc = "retrying" /\ rc.pc = "returned" /\ mg'.pc = "idle") =>
         /\ cb'.state = "closed"
         /\ cb'.failure_count = 0
         /\ mg'.outcome = "Completed"
         /\ mg'.value = rc.result
         /\ rc.result \in Results
         /\ UNCHANGED queueVars]_vars

\* a success on the probe after the breaker was open, with an item queued
C30_Witness ==
    /\ mg.pc = "idle"
    /\ mg.outcome = "Completed"
    /\ mg.value = "r2"
    /\ mg.pre > 0
    /\ cb.state = "closed"
    /\ cb.failure_count = 0
    /\ size(q) = 1

\* the ids still in the queue
Queued == {e.item : e \in InQueue(q)}

\* C29: every payload whose submit did not end in Completed was admitted
\* or its submit returned QueueFullError; an admitted payload is never
\* lost: it is in the queue or was handed out by dequeue, never both, with
\* a status of pending, completed or failed, and the record of admitted
\* payloads only grows.
C29_NoPayloadLost ==
    /\ [](/\ Queued \cup Withdrawn = 1..Len(reg)
          /\ Queued \cap Withdrawn = {}
          /\ \A id \in 1..Len(reg) :
               reg[id].status \in {"pending", "completed", "failed"})
    /\ [][/\ Len(reg') >= Len(reg)
          /\ ReturnStep =>
               \/ mg'.outcome = "Completed" /\ rc.pc = "returned"
               \/ mg'.outcome = "QueueFullError"
               \/ /\ mg'.outcome = "Queued"
                  /\ Len(reg') = Len(reg) + 1
                  /\ reg'[Len(reg')].status = "pending"
                  /\ \E e \in InQueue(q') : e.item = Len(reg')]_vars

\* two payloads admitted: one handed out and marked failed, one waiting
C29_Witness ==
    /\ mg.pc = "idle"
    /\ mg.submits = 2
    /\ Len(reg) = 2
    /\ \E id \in Withdrawn : reg[id].status = "failed"
    /\ \E id \in Queued : reg[id].status = "pending"

\* ------------------------------------------------------------------------
\* Concurrency limiter properties
\* ------------------------------------------------------------------------
Running == {c \in Callers : th[c].pc = "running"}
Ran == {c \in Callers : th[c].pc = "done"}
Refused == {c \in Callers : th[c].pc = "failed"}

\* C18: under every interleaving of the callers the slots in use stay
\* within 0..max_concurrent and no more than max_concurrent ops run at the
\* same time (with max_concurrent = 2 never three).
C18_SlotsBounded ==
    /\ 0 <= lim.active_count
    /\ lim.active_count <= lim.max_concurrent
    /\ Cardinality(Running) <= lim.max_concurrent

C18_Witness ==
    /\ lim.max_concurrent = 2
    /\ lim.active_count = 2
    /\ Cardinality(Running) = 2
    /\ \E c \in Callers : th[c].pc = "waiting" /\ th[c].waited > 0

\* the calls were made together and every op that ran held its slot for
\* longer than lock_timeout
Burst ==
    /\ \A c \in Callers : th[c].early /\ th[c].pc \in {"done", "failed"}
    /\ \A c \in Ran : th[c].held > lim.lock_timeout

\* C19: a waiting caller fails only when every slot is held and lock_timeout
\* has passed, then with ConcurrencyLimitError and without running op; no
\* caller waits longer than lock_timeout; and of callers arriving together
\* at a limiter of two slots whose ops hold longer than lock_timeout exactly
\* two run and every other one fails.
C19_TimeoutFails ==
    /\ [](\A c \in Callers :
            /\ th[c].waited <= lim.lock_timeout
            /\ th[c].pc = "failed" =>
                 /\ th[c].result = "ConcurrencyLimitError"
                 /\ th[c].held = 0
                 /\ th[c].waited = lim.lock_timeout
            /\ th[c].result = "ConcurrencyLimitError" => th[c].pc = "failed")
    /\ []((lim.max_concurrent = 2 /\ Burst) =>
            /\ Cardinality(Ran) = 2
            /\ Cardinality(Refused) = NumCallers - 2)
    /\ [][\A c \in Callers :
            th'[c].pc = "failed" /\ th[c].pc # "failed" =>
              /\ th[c].pc = "waiting"
              /\ lim.active_count = lim.max_concurrent
              /\ lim' = lim]_vars

C19_Witness ==
    /\ lim.max_concurrent = 2
    /\ lim.lock_timeout = 1
    /\ Burst
    /\ \E c \in Refused : th[c].result = "ConcurrencyLimitError"
    /\ \A c \in Ran : th[c].result = "ok"

\* C20: the slots in use are exactly the ops now running, whether the ops
\* before them returned or raised, so with every started call finished
\* active_count is 0; a raising op hands its failure to the caller.
C20_SlotAlwaysReleased ==
    /\ lim.active_count = Cardinality(Running)
    /\ \A c \in Callers :
         th[c].result \in {"ok", "op_error"} => th[c].pc = "done"

\* one slot: an op has raised and a later caller holds the slot
C20_Witness ==
    /\ lim.max_concurrent = 1
    /\ \E c1, c2 \in Callers :
         /\ th[c1].pc = "done" /\ th[c1].result = "op_error"
         /\ th[c2].pc = "running" /\ ~th[c2].early
    /\ lim.active_count = 1

\* ------------------------------------------------------------------------
\* ProgressIndicator properties
\* ------------------------------------------------------------------------
\* the step is a call of op on id by a caller (a call that repeats the last
\* one with the same result and changes nothing is no step)
Called(op, id) == plast' # plast /\ plast'.op = op /\ plast'.id = id

\* C26: execute() on an id in active_operations fails with 'already in
\* progress' and leaves the record as it was; update_progress() and
\* complete_operation() on an id not in active_operations fail with 'not
\* found' and change nothing; complete_operation() on an active id removes
\* it, so that a second completion fails.
C26_WrongStateRejected ==
    [][\A id \in OpIds :
        /\ (Called("execute", id) /\ id \in Active(pi))
              => /\ ~plast'.ok
                 /\ plast'.msg = "already in progress"
                 /\ pi' = pi
                 /\ mon' = mon
        /\ ((Called("update_progress", id) \/ Called("complete_operation", id))
                /\ id \notin Active(pi))
              => /\ ~plast'.ok
                 /\ plast'.msg = "not found"
                 /\ pi' = pi
                 /\ pdone' = pdone
        /\ (Called("complete_operation", id) /\ id \in Active(pi))
              => /\ plast'.ok
                 /\ id \notin Active(pi')
                 /\ pdone'.id = id]_vars

C26_Witness ==
    /\ plast.op = "execute"
    /\ ~plast.ok
    /\ plast.id \in Active(pi)
    /\ pi.active_operations[plast.id].progress = 99
    /\ pdone.id = plast.id

\* C27: update_progress stores the progress clamped to 0..100 (a negative
\* value as 0) and removes the operation when the progress is 100 or more,
\* so every record in active_operations has 0 <= progress < 100.
C27_ProgressInRange ==
    /\ [](\A id \in Active(pi) :
            /\ pi.active_operations[id].progress >= 0
            /\ pi.active_operations[id].progress < 100)
    /\ [][\A id \in Active(pi), progress \in Progresses :
            update_progress(id, progress) =>
                IF progress >= 100 THEN id \notin Active(pi')
                ELSE /\ id \in Active(pi')
                     /\ pi'.active_operations[id].progress =
                            (IF progress < 0 THEN 0 ELSE progress)]_vars

C27_Witness ==
    \E id \in Active(pi) :
        /\ pi.active_operations[id].progress = 0
        /\ pi.active_operations[id].completed_steps < 0
        /\ plast.op = "update_progress"
        /\ plast.id = id

\* the operation has been in active_operations longer than
\* max_operation_time
Overdue(id) ==
    /\ id \in Active(pi)
    /\ pnow - pi.active_operations[id].start_time > pi.max_operation_time

\* the monitor thread k runs for id
Monitoring(k, id) ==
    k \in 1..Len(mon) /\ mon[k].id = id /\ mon[k].pc # "done"

\* C28: an operation left in active_operations longer than
\* max_operation_time is eventually removed, whether or not a caller acts,
\* and a removal that is not a caller's is a completion as failed with
\* 'Operation timed out'; a monitor thread whose operation is no longer
\* active ends, at its loop test or at the completion it had decided on.
\* (No operation stays overdue for ever, and no monitor thread stays alive
\* for ever beside an operation that is not active.)
C28_TimeoutRemoves ==
    /\ \A id \in OpIds : []<>(~Overdue(id))
    /\ \A id \in OpIds, k \in 1..MaxStarts :
          []<>(~(Monitoring(k, id) /\ id \notin Active(pi)))
    /\ [][\A id \in OpIds :
            /\ (id \in Active(pi) /\ id \notin Active(pi') /\ plast' = plast)
                  => pdone' = Completion(id, FALSE, "Operation timed out")
            /\ \A k \in 1..Len(mon) :
                  (/\ Monitoring(k, id)
                   /\ mon[k].pc = "test"
                   /\ mon'[k] # mon[k]
                   /\ id \notin Active(pi))
                     => mon'[k] = EndedMonitor]_vars

C28_Witness ==
    /\ pdone.status = "failed"
    /\ pdone.error_message = "Operation timed out"
    /\ pdone.id \notin Active(pi)
    /\ plast = ProgressCall("execute", pdone.id, TRUE, "started")
    /\ \A k \in 1..Len(mon) : mon[k] = EndedMonitor

\* ------------------------------------------------------------------------
\* The breaker's state machine (checked under Spec)
\* ------------------------------------------------------------------------

\* C34: the state changes only from Closed or HalfOpen to Open on a recorded
\* failure that leaves failure_count >= failure_threshold, from Open to
\* HalfOpen on a can_execute made at or after next_attempt_time, and to
\* Closed on a recorded success; a step on which only time passes leaves the
\* breaker as it was, and HalfOpen is entered from Open only.
C34_StateChangesByCalls ==
    [][/\ cb'.state # cb.state =>
            \/ /\ cb'.state = "open"
               /\ cb.state \in {"closed", "half_open"}
               /\ \/ last'.op = "record_failure"
                  \/ last'.op = "execute" /\ last'.out \in Errors
               /\ cb'.failure_count >= cb.failure_threshold
            \/ /\ cb'.state = "half_open"
               /\ cb.state = "open"
               /\ last'.op = "can_execute"
               /\ cb.next_attempt_time # NoTime
               /\ last'.at >= cb.next_attempt_time
            \/ /\ cb'.state = "closed"
               /\ \/ last'.op = "record_success"
                  \/ last'.op = "execute" /\ last'.out \in Results
       /\ last' = last => cb' = cb]_vars

C34_Witness ==
    /\ validate_config(cb)
    /\ cb.state = "open"
    /\ last.op = "record_failure"
    /\ last.pre.state = "half_open"
    /\ now > cb.next_attempt_time
    /\ now > last.t

\* C35: a breaker whose failure_threshold or timeout_duration is not
\* positive never guards a call and never changes state.
C35_InvalidConfigRejected ==
    ~validate_config(cb) => (last.op = "none" /\ cb.state = "closed")

\* C37: with failure_threshold >= 1, failure_count is never negative, a
\* Closed breaker has failure_count < failure_threshold, and an Open or
\* HalfOpen breaker has failure_count >= failure_threshold and a
\* next_attempt_time.
C37_CountMatchesState ==
    cb.failure_threshold >= 1 =>
      /\ cb.failure_count >= 0
      /\ cb.state = "closed" => cb.failure_count < cb.failure_threshold
      /\ cb.state \in {"open", "half_open"} =>
            /\ cb.failure_count >= cb.failure_threshold
            /\ cb.next_attempt_time # NoTime

C37_Witness ==
    /\ cb.failure_threshold = 2
    /\ cb.state = "half_open"
    /\ cb.failure_count = 3
    /\ last.op = "can_execute"

\* C38: a record_failure on a HalfOpen breaker leaves it Open with
\* next_attempt_time = now + timeout_duration and one more failure counted,
\* so that can_execute is false before that time; the can_execute that made
\* the breaker HalfOpen left failure_count as it was.
C38_FailedProbeReopens ==
    /\ (last.op = "record_failure" /\ last.pre.state = "half_open")
          => /\ cb.state = "open"
             /\ cb.failure_count = last.pre.failure_count + 1
             /\ cb.failure_count >= cb.failure_threshold
             /\ cb.next_attempt_time = last.t + cb.timeout_duration
             /\ \A t \in 0..MaxTime :
                   t < cb.next_attempt_time => ~CanExecuteResult(cb, t)
    /\ (last.op = "can_execute" /\ last.pre.state = "open")
          => cb.failure_count = last.pre.failure_count

C38_Witness ==
    /\ cb.failure_threshold = 2
    /\ cb.timeout_duration = 1
    /\ last.op = "record_failure"
    /\ last.pre.state = "half_open"
    /\ last.pre.failure_count = 2
    /\ cb.state = "open"
    /\ now < cb.next_attempt_time

\* ------------------------------------------------------------------------
\* Steps of an operation in progress (checked under ProgressSpec)
\* ------------------------------------------------------------------------

\* C39: every operation in active_operations has
\* 0 <= completed_steps <= total_steps.
C39_StepsInRange ==
    \A id \in Active(pi) :
        /\ pi.active_operations[id].completed_steps >= 0
        /\ pi.active_operations[id].completed_steps
              <= pi.active_operations[id].total_steps

\* ------------------------------------------------------------------------
\* Publisher properties (checked under PublisherSpec)
\* ------------------------------------------------------------------------
NoDuplicates(s) == \A i, j \in 1..Len(s) : s[i] = s[j] => i = j

Others(s, who) == SelectSeq(s, LAMBDA x : x # who)

\* C40: a publish hands the message to every subscriber of the moment,
\* once each and in the order of subscription, whichever of them raise, and
\* no exception leaves publish; a subscriber is in the list at most once,
\* a new one goes to its end, an unsubscribed one is in it no more (and so
\* receives nothing) and the others keep their order.
C40_DeliveredOnceInOrder ==
    /\ NoDuplicates(pub.subscribers)
    /\ sent.op = "publish" =>
          /\ pub.subscribers = sent.before
          /\ sent.done.received = sent.before
          /\ ~sent.done.raised
    /\ sent.op = "subscribe" =>
          pub.subscribers =
             IF \E i \in 1..Len(sent.before) : sent.before[i] = sent.arg
             THEN sent.before
             ELSE Append(sent.before, sent.arg)
    /\ sent.op = "unsubscribe" =>
          pub.subscribers = Others(sent.before, sent.arg)

C40_Witness ==
    /\ sent.op = "publish"
    /\ sent.before = <<"s3", "s1", "s2">>
    /\ sent.done.received = <<"s3", "s1", "s2">>
    /\ sent.done.logged = <<"s3", "s1">>

\* ------------------------------------------------------------------------
\* Independence of the breakers (checked under PoolSpec)
\* ------------------------------------------------------------------------

\* C36: a call of can_execute, record_success, record_failure or execute on
\* the breaker of one manager and service leaves every other breaker, of
\* another service or of another manager, exactly as it was.
C36_BreakersIndependent ==
    [][\A k \in PoolKeys :
          k # pool'.last.key => pool'.of[k] = pool.of[k]]_vars

C36_Witness ==
    /\ pool.of[<<"m1", "payment">>].state = "open"
    /\ pool.of[<<"m1", "inventory">>].state = "half_open"
    /\ pool.of[<<"m2", "payment">>].state = "closed"
    /\ pool.of[<<"m2", "payment">>].failure_count = 0
    /\ pool.last.key = <<"m1", "payment">>
    /\ pool.last.op = "execute_error"


\* ------------------------------------------------------------------------
\* Threads on one queue (checked under QueueRaceSpec)
\* ------------------------------------------------------------------------
\* how often item c is pending or was handed to the consumer
Holdings(c) ==
    Cardinality({i \in DOMAIN q.items : q.items[i].item = c})
    + Cardinality({i \in DOMAIN qt.consumer.got : qt.consumer.got[i] = c})

\* C31: with several producers in enqueue and one consumer in dequeue, the
\* pending count never exceeds max_size, an item whose enqueue returned True
\* is pending or was returned exactly once, and the entry the consumer is
\* about to take has the highest priority of the pending ones.
C31_QueueOperationsAtomic ==
    /\ Len(q.items) <= q.max_size
    /\ \A c \in Producers : qt.producer[c].ret = "true" => Holdings(c) = 1
    /\ qt.consumer.pc = "pop" =>
         \A i \in DOMAIN q.items : q.items[1].priority >= q.items[i].priority

\* ------------------------------------------------------------------------
\* Threads on one breaker (checked under BreakerRaceSpec)
\* ------------------------------------------------------------------------
AllReturned(op) ==
    \A c \in Racers : bt.th[c].op = op /\ bt.th[c].pc = "done"

\* C32: when every thread has called record_failure on a breaker that was
\* closed with c failures counted, and all have returned, failure_count is
\* c plus the number of threads, and the breaker is open if that reaches
\* the threshold.
C32_NoFailureLost ==
    (AllReturned("record_failure") /\ bt.start.state = "closed") =>
        /\ cb.failure_count = bt.start.failure_count + NumRacers
        /\ (bt.start.failure_count + NumRacers >= cb.failure_threshold
              => cb.state = "open")

OnlyCanExecute == \A c \in Racers : bt.th[c].op \in {"none", "can_execute"}

\* a thread whose can_execute started at or after next_attempt_time of the
\* open breaker, and has returned
DueCaller(c) ==
    /\ bt.th[c].op = "can_execute"
    /\ bt.th[c].pc = "done"
    /\ bt.th[c].at >= bt.start.next_attempt_time

\* C33: while only can_execute is called on a breaker that was open, every
\* caller that started at or after next_attempt_time is admitted and leaves
\* the breaker half-open, however the calls interleave; the calls change
\* nothing but the state, and that only from open to half-open.
C33_ProbesAdmitted ==
    (OnlyCanExecute /\ bt.start.state = "open") =>
        /\ \A c \in Racers :
             DueCaller(c) => bt.th[c].ret = "true" /\ cb.state = "half_open"
        /\ cb \in {bt.start, [bt.start EXCEPT !.state = "half_open"]}
        /\ cb.state = "half_open" => now >= bt.start.next_attempt_time

\* one caller was admitted while another, having seen the breaker open and
\* due, has still to set it half-open
C33_Witness ==
    /\ OnlyCanExecute
    /\ bt.start.state = "open"
    /\ \E c, d \in Racers :
         /\ DueCaller(c) /\ bt.th[c].ret = "true"
         /\ bt.th[d].pc = "probe"
         /\ cb.state = "half_open"

====
